---- MODULE Spec2Model ----
(***************************************************************************)
(* A model of the llm-workflow crate: the shared ExecutionContext          *)
(* (metrics + trace log), the Step combinators and the Workflow facade.    *)
(*                                                                         *)
(* Every asynchronous `run` is a frame on the stack of a fiber (a future   *)
(* being polled).  A frame advances by one action between two await       *)
(* points or two lock acquisitions; ParallelMapStep forks one child fiber  *)
(* per item and joins them.                                                *)
(***************************************************************************)
EXTENDS Integers, Sequences, FiniteSets, TLC

VARIABLES
    ctxs,        \* the ExecutionContexts created so far; a handle is an index
    callers,     \* per caller: the handles it holds and its last snapshots
    lastOp,      \* the last ExecutionContext method a caller invoked directly
    clock,       \* SystemTime::now() in milliseconds
    fibers,      \* the futures: stack of frames, returned value, history
    built,       \* the steps and workflows constructed by the program
    completed,   \* child fibers of a join_all in the order they completed
    states       \* the state cells of the StepAdapters constructed so far

vars == <<ctxs, callers, lastOp, clock, fibers, built, completed, states>>

----------------------------------------------------------------------------
(* Bounds *)

MaxTokens == 2      \* largest token count passed to one record_* call
MaxCtxOps == 4      \* direct ExecutionContext calls made by the callers
MaxClock == 1       \* ticks of the wall clock
MaxItems == 2       \* longest Vec handed to a step over a collection
MaxCalls == 2       \* top-level invocations made by one caller
MaxBatch == 3       \* longest Vec handed to a sequential step over a Vec

Callers == {1}
Vals == {0, 1}
Msgs == {"e1", "e2"}
StepNames == {"A", "B"}

----------------------------------------------------------------------------
(* error.rs *)

Execution(msg) == [variant |-> "Execution", payload |-> msg]
Message(msg) == [variant |-> "Message", payload |-> msg]
Validation(msg) == [variant |-> "Validation", payload |-> msg]
Checkpoint(step_name, data) ==
    [variant |-> "Checkpoint", step_name |-> step_name, data |-> data]

\* impl Display for Error (thiserror #[error(...)] attributes)
to_string(e) ==
    CASE e.variant = "Checkpoint" ->
            "Checkpoint reached at step '" \o e.step_name \o "'"
      [] e.variant = "Validation" -> "Validation error: " \o e.payload
      [] e.variant = "Execution" -> "Execution error: " \o e.payload
      [] e.variant = "Message" -> e.payload

Ok(v) == [tag |-> "Ok", val |-> v]
Err(e) == [tag |-> "Err", err |-> e]
None == [tag |-> "None"]

IsOk(r) == r.tag = "Ok"
IsErr(r) == r.tag = "Err"

----------------------------------------------------------------------------
(* metrics.rs *)

WorkflowMetrics_default ==
    [prompt_token_count |-> 0,
     completion_token_count |-> 0,
     total_token_count |-> 0,
     steps_completed |-> 0,
     failures |-> <<>>]

WorkflowMetrics_add_prompt_tokens(m, count) ==
    [m EXCEPT !.prompt_token_count = @ + count,
              !.total_token_count = @ + count]

WorkflowMetrics_add_completion_tokens(m, count) ==
    [m EXCEPT !.completion_token_count = @ + count,
              !.total_token_count = @ + count]

WorkflowMetrics_add_tokens(m, prompt, completion) ==
    [m EXCEPT !.prompt_token_count = @ + prompt,
              !.completion_token_count = @ + completion,
              !.total_token_count = @ + (prompt + completion)]

WorkflowMetrics_record_failure(m, error) ==
    [m EXCEPT !.failures = Append(@, error)]

WorkflowMetrics_record_step(m) ==
    [m EXCEPT !.steps_completed = @ + 1]

----------------------------------------------------------------------------
(* events.rs *)

StepStart(step_name, input_type) ==
    [type |-> "StepStart", step_name |-> step_name, input_type |-> input_type]
StepEnd(step_name, duration_ms) ==
    [type |-> "StepEnd", step_name |-> step_name, duration_ms |-> duration_ms]
Artifact(step_name, key, data) ==
    [type |-> "Artifact", step_name |-> step_name, key |-> key, data |-> data]
ErrorEvent(step_name, message) ==
    [type |-> "Error", step_name |-> step_name, message |-> message]

TraceEntry_new(event, now) == [timestamp |-> now, event |-> event]

\* serde_json::to_value for the value types of the model, with the
\* "<serialization_error>" fallback used by emit_artifact and the checkpoints
to_value(ty, v) ==
    CASE ty = "i32" -> [json |-> "Number", n |-> v]
      [] ty = "Vec<i32>" ->
            [json |-> "Array",
             items |-> [k \in 1..Len(v) |-> [json |-> "Number", n |-> v[k]]]]
      [] OTHER -> [json |-> "String", s |-> "<serialization_error>"]

----------------------------------------------------------------------------
(* context.rs: each method holds the mutex for its whole body, so each is  *)
(* one atomic update of the context record                                 *)

ExecutionContext_new == [metrics |-> WorkflowMetrics_default, traces |-> <<>>]

record_prompt_tokens(c, count) ==
    [c EXCEPT !.metrics.prompt_token_count = @ + count]

record_completion_tokens(c, count) ==
    [c EXCEPT !.metrics.completion_token_count = @ + count]

record_tokens(c, prompt, completion) ==
    [c EXCEPT !.metrics.prompt_token_count = @ + prompt,
              !.metrics.completion_token_count = @ + completion,
              !.metrics.total_token_count = @ + (prompt + completion)]

record_step(c) ==
    [c EXCEPT !.metrics = WorkflowMetrics_record_step(@)]

record_failure(c, error) ==
    [c EXCEPT !.metrics = WorkflowMetrics_record_failure(@, error)]

snapshot(c) == c.metrics

\* mutant: the entry is put in front of the log
emit_in_front(c, event, now) ==
    [c EXCEPT !.traces = <<TraceEntry_new(event, now)>> \o @]

emit(c, event, now) ==
    [c EXCEPT !.traces = Append(@, TraceEntry_new(event, now))]

emit_artifact(c, step_name, key, ty, data, now) ==
    emit(c, Artifact(step_name, key, to_value(ty, data)), now)

trace_snapshot(c) == c.traces

\* mutant: clearing the traces also resets the metrics
clear_traces_and_metrics(c) == ExecutionContext_new

clear_traces(c) == [c EXCEPT !.traces = <<>>]

----------------------------------------------------------------------------
(* A caller using the ExecutionContext API directly through a handle *)

Handles(t) == 1..Len(callers[t].handles)

CanCall == lastOp.seq < MaxCtxOps

Did(op, t, h) ==
    lastOp' = [op |-> op, ctx |-> callers[t].handles[h], seq |-> lastOp.seq + 1]

Update(t, h, c) == ctxs' = [ctxs EXCEPT ![callers[t].handles[h]] = c]

Target(t, h) == ctxs[callers[t].handles[h]]

Call_new(t) ==
    /\ CanCall
    /\ Len(callers[t].handles) < 2
    /\ ctxs' = Append(ctxs, ExecutionContext_new)
    /\ callers' = [callers EXCEPT ![t].handles = Append(@, Len(ctxs) + 1)]
    /\ lastOp' = [op |-> "new", ctx |-> Len(ctxs) + 1, seq |-> lastOp.seq + 1]
    /\ UNCHANGED <<clock, fibers, built, completed, states>>

\* mutant: the clone is a copy of the context, with a state of its own
Call_clone_copying(t) ==
    /\ CanCall
    /\ Len(callers[t].handles) < 2
    /\ \E h \in Handles(t) :
          /\ ctxs' = Append(ctxs, Target(t, h))
          /\ callers' = [callers EXCEPT ![t].handles = Append(@, Len(ctxs) + 1)]
          /\ Did("clone", t, h)
    /\ UNCHANGED <<clock, fibers, built, completed, states>>

\* `ctx.clone()`: the Arcs are cloned, the handle is to the same context
Call_clone(t) ==
    /\ CanCall
    /\ Len(callers[t].handles) < 2
    /\ \E h \in Handles(t) :
          /\ callers' = [callers EXCEPT
                            ![t].handles = Append(@, callers[t].handles[h])]
          /\ Did("clone", t, h)
    /\ UNCHANGED <<ctxs, clock, fibers, built, completed, states>>

Call_record_prompt_tokens(t) ==
    /\ CanCall
    /\ \E h \in Handles(t), count \in 0..MaxTokens :
          /\ Update(t, h, record_prompt_tokens(Target(t, h), count))
          /\ Did("record_prompt_tokens", t, h)
    /\ UNCHANGED <<callers, clock, fibers, built, completed, states>>

Call_record_completion_tokens(t) ==
    /\ CanCall
    /\ \E h \in Handles(t), count \in 0..MaxTokens :
          /\ Update(t, h, record_completion_tokens(Target(t, h), count))
          /\ Did("record_completion_tokens", t, h)
    /\ UNCHANGED <<callers, clock, fibers, built, completed, states>>

Call_record_tokens(t) ==
    /\ CanCall
    /\ \E h \in Handles(t), prompt \in 0..MaxTokens, completion \in 0..MaxTokens :
          /\ Update(t, h, record_tokens(Target(t, h), prompt, completion))
          /\ Did("record_tokens", t, h)
    /\ UNCHANGED <<callers, clock, fibers, built, completed, states>>

Call_record_step(t) ==
    /\ CanCall
    /\ \E h \in Handles(t) :
          /\ Update(t, h, record_step(Target(t, h)))
          /\ Did("record_step", t, h)
    /\ UNCHANGED <<callers, clock, fibers, built, completed, states>>

Call_record_failure(t) ==
    /\ CanCall
    /\ \E h \in Handles(t), msg \in Msgs :
          /\ Update(t, h, record_failure(Target(t, h), msg))
          /\ Did("record_failure", t, h)
    /\ UNCHANGED <<callers, clock, fibers, built, completed, states>>

Call_emit(t) ==
    /\ CanCall
    /\ \E h \in Handles(t), name \in StepNames :
          /\ Update(t, h, emit(Target(t, h), StepStart(name, "i32"), clock))
          /\ Did("emit", t, h)
    /\ UNCHANGED <<callers, clock, fibers, built, completed, states>>

Call_emit_artifact(t) ==
    /\ CanCall
    /\ \E h \in Handles(t), v \in Vals :
          /\ Update(t, h, emit_artifact(Target(t, h), "A", "output", "i32", v, clock))
          /\ Did("emit_artifact", t, h)
    /\ UNCHANGED <<callers, clock, fibers, built, completed, states>>

Call_snapshot(t) ==
    /\ CanCall
    /\ \E h \in Handles(t) :
          /\ callers' = [callers EXCEPT ![t].snapshot = snapshot(Target(t, h))]
          /\ Did("snapshot", t, h)
    /\ UNCHANGED <<ctxs, clock, fibers, built, completed, states>>

Call_trace_snapshot(t) ==
    /\ CanCall
    /\ \E h \in Handles(t) :
          /\ callers' = [callers EXCEPT
                            ![t].trace_snapshot = trace_snapshot(Target(t, h)),
                            ![t].trace_snapshot_of = callers[t].handles[h]]
          /\ Did("trace_snapshot", t, h)
    /\ UNCHANGED <<ctxs, clock, fibers, built, completed, states>>

\* a caller that holds a snapshot of the cleared log notes that the log has
\* been cleared since (trace_snapshot_of = 0)
Call_clear_traces(t) ==
    /\ CanCall
    /\ \E h \in Handles(t) :
          /\ Update(t, h, clear_traces(Target(t, h)))
          /\ Did("clear_traces", t, h)
          /\ callers' = [u \in Callers |->
                            IF callers[u].trace_snapshot_of = callers[t].handles[h]
                              THEN [callers[u] EXCEPT !.trace_snapshot_of = 0]
                              ELSE callers[u]]
    /\ UNCHANGED <<clock, fibers, built, completed, states>>

\* the wall clock advances
Tick ==
    /\ clock < MaxClock
    /\ clock' = clock + 1
    /\ UNCHANGED <<ctxs, callers, lastOp, fibers, built, completed, states>>

----------------------------------------------------------------------------
(* Steps.  A step value is a record; `kind` names the implementing type.   *)

\* a user-written step: a LambdaStep (effect "none": it never sees the
\* context) or any other impl of the Step trait, which may use the context
UserStep(id, f, effect) == [kind |-> "Step", id |-> id, f |-> f, effect |-> effect]
ChainStep_new(first, second) == [kind |-> "Chain", first |-> first, second |-> second]
ChainTupleStep_new(first, second) ==
    [kind |-> "ChainTuple", first |-> first, second |-> second]
ParallelMapStep_new(step) == [kind |-> "ParallelMap", step |-> step]
BranchStep_new(predicate, left, right) ==
    [kind |-> "Branch", predicate |-> predicate, left |-> left, right |-> right]
SingleItemAdapter_new(step) == [kind |-> "SingleItemAdapter", step |-> step]
InstrumentedStep_new(inner, name) == [kind |-> "Instrumented", inner |-> inner, name |-> name]
CheckpointStep_new(name) == [kind |-> "Checkpoint", step_name |-> name]
ConditionalCheckpointStep_new(name, predicate) ==
    [kind |-> "ConditionalCheckpoint", step_name |-> name, predicate |-> predicate]
Workflow_new(step) == [kind |-> "Workflow", step |-> step, name |-> "workflow"]

Seqs(S, n) == UNION {[1..k -> S] : k \in 0..n}

\* the values of the step's Input type that the callers try
RECURSIVE InputsOf(_)
InputsOf(s) ==
    CASE s.kind = "Step" -> DOMAIN s.f
      [] s.kind = "Chain" -> InputsOf(s.first)
      [] s.kind = "ChainTuple" -> InputsOf(s.first)
      [] s.kind = "ParallelMap" -> Seqs(InputsOf(s.step), MaxItems)
      [] s.kind = "SingleItemAdapter" -> Seqs(InputsOf(s.step), MaxBatch)
      [] s.kind = "Batch" -> InputsOf(s.step)
      [] s.kind = "Branch" -> DOMAIN s.predicate
      [] s.kind = "Map" -> InputsOf(s.step)
      [] s.kind = "Tap" -> InputsOf(s.step)
      [] s.kind = "StepAdapter" -> Vals
      [] s.kind = "Instrumented" -> InputsOf(s.inner)
      [] s.kind = "Checkpoint" -> Vals
      [] s.kind = "ConditionalCheckpoint" -> DOMAIN s.predicate
      [] s.kind = "Workflow" -> InputsOf(s.step)

\* std::any::type_name::<S::Input>()
RECURSIVE type_name(_)
type_name(s) ==
    CASE s.kind = "Step" -> "i32"
      [] s.kind = "Chain" -> type_name(s.first)
      [] s.kind = "ChainTuple" -> type_name(s.first)
      [] s.kind = "ParallelMap" -> "Vec<" \o type_name(s.step) \o ">"
      [] s.kind = "SingleItemAdapter" -> "Vec<" \o type_name(s.step) \o ">"
      [] s.kind = "Batch" -> type_name(s.step)
      [] s.kind = "Branch" -> type_name(s.left)
      [] s.kind = "Map" -> type_name(s.step)
      [] s.kind = "Tap" -> type_name(s.step)
      [] s.kind = "StepAdapter" -> "i32"
      [] s.kind = "Instrumented" -> type_name(s.inner)
      [] s.kind = "Checkpoint" -> "i32"
      [] s.kind = "ConditionalCheckpoint" -> "i32"
      [] s.kind = "Workflow" -> type_name(s.step)

----------------------------------------------------------------------------
(* Fibers.  fibers[<<t>>] is the future caller t awaits; fibers[f \o <<k>>] *)
(* is the k-th future of the join_all made by the frame on top of f.       *)

Frame(step, input, ctx, pc) ==
    [step |-> step, pc |-> pc, input |-> input, ctx |-> ctx, loc |-> <<>>]

\* the futures there can be: one per caller, and under each the futures of
\* one join_all
FiberIds ==
    {<<t>> : t \in Callers} \cup {<<t, k>> : t \in Callers, k \in 1..MaxItems}

Idle == [stack |-> <<>>, ret |-> None, log |-> <<>>]

Top(f) == Head(fibers[f].stack)

At(f, kind, pc) ==
    /\ f \in DOMAIN fibers
    /\ fibers[f].stack # <<>>
    /\ Top(f).step.kind = kind
    /\ Top(f).pc = pc

\* the callee awaited by the top frame has returned
Returned(f) == fibers[f].ret.tag # "None"

CallEntry(fr, depth) ==
    [ev |-> "call", depth |-> depth, step |-> fr.step, input |-> fr.input,
     ctx |-> fr.ctx, entry |-> fr.pc]

RetEntry(fr, depth, r) ==
    [ev |-> "ret", depth |-> depth, step |-> fr.step, input |-> fr.input,
     ctx |-> fr.ctx, result |-> r]

\* fb with frame fr pushed: `callee.run(ctx, input)` has been called
Push(fb, fr) ==
    [fb EXCEPT !.stack = <<fr>> \o @,
               !.ret = None,
               !.log = Append(@, CallEntry(fr, Len(fb.stack) + 1))]

\* fb with its top frame moved to pc, with locals loc
Goto(fb, pc, loc) ==
    [fb EXCEPT !.stack = <<[Head(@) EXCEPT !.pc = pc, !.loc = loc]>> \o Tail(@)]

\* fb with its top frame popped, returning r to the frame below
Pop(fb, r) ==
    [fb EXCEPT !.stack = Tail(@),
               !.ret = r,
               !.log = Append(@, RetEntry(Head(fb.stack), Len(fb.stack), r))]

\* the top frame of f awaits `step.run(ctx, input)` and continues at pc
Await(f, step, input, ctx, pc, loc) ==
    /\ fibers' = [fibers EXCEPT
                     ![f] = Push(Goto(@, pc, loc), Frame(step, input, ctx, "start"))]
    /\ UNCHANGED completed

\* the top frame of f returns r
Return(f, r) ==
    /\ fibers' = [fibers EXCEPT ![f] = Pop(@, r)]
    /\ completed' = IF Len(f) > 1 /\ Len(fibers[f].stack) = 1
                      THEN Append(completed, f)
                      ELSE completed

\* fb after its top frame has called its predicate closure, which said value
Eval(fb, value) ==
    LET fr == Head(fb.stack) IN
    [fb EXCEPT !.log = Append(@, [ev |-> "predicate", depth |-> Len(fb.stack) + 1,
                                  step |-> fr.step, input |-> fr.input,
                                  ctx |-> fr.ctx, result |-> value])]

\* fb after its top frame has called its closure ev on arg, which gave value
Closure(fb, ev, arg, value) ==
    LET fr == Head(fb.stack) IN
    [fb EXCEPT !.log = Append(@, [ev |-> ev, depth |-> Len(fb.stack) + 1,
                                  step |-> fr.step, input |-> arg,
                                  ctx |-> fr.ctx, result |-> value])]

\* the top frame of f, in fiber state fb, returns r
ReturnFrom(f, fb, r) ==
    /\ fibers' = [fibers EXCEPT ![f] = Pop(fb, r)]
    /\ completed' = IF Len(f) > 1 /\ Len(fibers[f].stack) = 1
                      THEN Append(completed, f)
                      ELSE completed

IsPrefix(p, q) == Len(p) <= Len(q) /\ SubSeq(q, 1, Len(p)) = p

----------------------------------------------------------------------------
(* context.rs, ExecutionContext::emit called from several threads, each     *)
(* with a clone of the context.  The entry is made, and the clock read,     *)
(* before the mutex is taken: a thread can be between the two statements    *)
(* while another one runs.  fibers[<<t, k>>] is the k-th thread spawned by  *)
(* caller t.                                                                *)

\* `let ctx = ctx.clone(); thread::spawn(move || ...)`
Call_spawn(t) ==
    /\ \E k \in 1..MaxItems :
          /\ <<t, k>> \notin DOMAIN fibers
          /\ \A j \in 1..(k - 1) : <<t, j>> \in DOMAIN fibers
          /\ fibers' = [g \in DOMAIN fibers \cup {<<t, k>>} |->
                           IF g = <<t, k>> THEN Idle ELSE fibers[g]]
    /\ UNCHANGED <<ctxs, callers, lastOp, clock, built, completed, states>>

\* `ctx.emit(event)` is entered: `let entry = TraceEntry::new(event);`
emit_TraceEntry_new(g) ==
    /\ CanCall
    /\ g \in DOMAIN fibers
    /\ fibers[g].stack = <<>>
    /\ \E h \in Handles(g[1]) :
          LET c == callers[g[1]].handles[h]
              event == StepStart("A", "i32")
              fr == [Frame([kind |-> "emit"], event, c, "push")
                        EXCEPT !.loc = [entry |-> TraceEntry_new(event, clock)]]
          IN  /\ fibers' = [fibers EXCEPT ![g].stack = <<fr>>]
              /\ lastOp' = [op |-> "emit", ctx |-> c, seq |-> lastOp.seq + 1]
    /\ UNCHANGED <<ctxs, callers, clock, built, completed, states>>

\* `self.traces.lock().unwrap().push(entry);`
emit_push(g) ==
    /\ At(g, "emit", "push")
    /\ LET fr == Top(g) IN
          /\ ctxs' = [ctxs EXCEPT ![fr.ctx].traces = Append(@, fr.loc.entry)]
          /\ fibers' = [fibers EXCEPT ![g].stack = <<>>]
    /\ UNCHANGED <<callers, lastOp, clock, built, completed, states>>

----------------------------------------------------------------------------
(* step/mod.rs: a user-written step *)

\* what the body of a user-written step does with the context it is given
Effect(effect, c, input, now) ==
    CASE effect = "none" -> c
      [] effect = "tokens" -> record_tokens(c, 1, 1)
      [] effect = "artifact" -> emit_artifact(c, "user", "input", "i32", input, now)

Step_run(f) ==
    /\ At(f, "Step", "start")
    /\ LET fr == Top(f) IN
          /\ ctxs' = [ctxs EXCEPT
                         ![fr.ctx] = Effect(fr.step.effect, @, fr.input, clock)]
          /\ Return(f, fr.step.f[fr.input])
    /\ UNCHANGED <<callers, lastOp, clock, built, states>>

----------------------------------------------------------------------------
(* step/chain.rs *)

ChainStep_run_first(f) ==
    /\ At(f, "Chain", "start")
    /\ UNCHANGED <<ctxs, callers, lastOp, clock, built, states>>
    /\ LET fr == Top(f) IN
          Await(f, fr.step.first, fr.input, fr.ctx, "first", <<>>)

\* mutant: the second step is run although the first one failed
ChainStep_run_second_despite_error(f) ==
    /\ At(f, "Chain", "first")
    /\ UNCHANGED <<ctxs, callers, lastOp, clock, built, states>>
    /\ Returned(f)
    /\ LET fr == Top(f)
           intermediate == fibers[f].ret
       IN  Await(f, fr.step.second,
                 IF IsErr(intermediate) THEN fr.input ELSE intermediate.val,
                 fr.ctx, "second", <<>>)

\* mutant: the second step is given the chain's input, not the intermediate
ChainStep_run_second_with_input(f) ==
    /\ At(f, "Chain", "first")
    /\ UNCHANGED <<ctxs, callers, lastOp, clock, built, states>>
    /\ Returned(f)
    /\ LET fr == Top(f)
           intermediate == fibers[f].ret
       IN  IF IsErr(intermediate)
             THEN Return(f, intermediate)
             ELSE Await(f, fr.step.second, fr.input, fr.ctx, "second", <<>>)

\* `self.first.run(ctx, input).await?` has completed
ChainStep_run_second(f) ==
    /\ At(f, "Chain", "first")
    /\ UNCHANGED <<ctxs, callers, lastOp, clock, built, states>>
    /\ Returned(f)
    /\ LET fr == Top(f)
           intermediate == fibers[f].ret
       IN  IF IsErr(intermediate)
             THEN Return(f, intermediate)
             ELSE Await(f, fr.step.second, intermediate.val, fr.ctx, "second", <<>>)

ChainStep_run_return(f) ==
    /\ At(f, "Chain", "second")
    /\ UNCHANGED <<ctxs, callers, lastOp, clock, built, states>>
    /\ Returned(f)
    /\ Return(f, fibers[f].ret)

\* ChainTupleStep::run up to its first await
ChainTupleStep_run_first(f) ==
    /\ At(f, "ChainTuple", "start")
    /\ UNCHANGED <<ctxs, callers, lastOp, clock, built, states>>
    /\ LET fr == Top(f) IN
          Await(f, fr.step.first, fr.input, fr.ctx, "first", <<>>)

\* mutant: the second step is given the output of the first
ChainTupleStep_run_second_with_output(f) ==
    /\ At(f, "ChainTuple", "first")
    /\ UNCHANGED <<ctxs, callers, lastOp, clock, built, states>>
    /\ Returned(f)
    /\ LET fr == Top(f)
           a == fibers[f].ret
       IN  IF IsErr(a)
             THEN Return(f, a)
             ELSE Await(f, fr.step.second, a.val, fr.ctx, "second", [a |-> a.val])

\* `let a = self.first.run(ctx, input.clone()).await?` has completed
ChainTupleStep_run_second(f) ==
    /\ At(f, "ChainTuple", "first")
    /\ UNCHANGED <<ctxs, callers, lastOp, clock, built, states>>
    /\ Returned(f)
    /\ LET fr == Top(f)
           a == fibers[f].ret
       IN  IF IsErr(a)
             THEN Return(f, a)
             ELSE Await(f, fr.step.second, fr.input, fr.ctx, "second", [a |-> a.val])

\* `let b = self.second.run(ctx, input).await?` has completed
ChainTupleStep_run_return(f) ==
    /\ At(f, "ChainTuple", "second")
    /\ UNCHANGED <<ctxs, callers, lastOp, clock, built, states>>
    /\ Returned(f)
    /\ LET fr == Top(f)
           b == fibers[f].ret
       IN  IF IsErr(b)
             THEN Return(f, b)
             ELSE Return(f, Ok(<<fr.loc.a, b.val>>))

----------------------------------------------------------------------------
(* step/parallel.rs *)

Children(f, n) == {f \o <<k>> : k \in 1..n}

\* mutant: the error of the last failing item is returned
collect_last_error(results) ==
    LET failed == {k \in 1..Len(results) : IsErr(results[k])} IN
    IF failed # {}
      THEN results[CHOOSE k \in failed : \A j \in failed : k >= j]
      ELSE Ok([k \in 1..Len(results) |-> results[k].val])

\* `results.into_iter().collect::<Result<Vec<_>>>()`
collect(results) ==
    LET failed == {k \in 1..Len(results) : IsErr(results[k])} IN
    IF failed # {}
      THEN results[CHOOSE k \in failed : \A j \in failed : k <= j]
      ELSE Ok([k \in 1..Len(results) |-> results[k].val])

\* the futures are built, one per item, and handed to join_all
ParallelMapStep_run_spawn(f) ==
    /\ At(f, "ParallelMap", "start")
    /\ LET fr == Top(f)
           n == Len(fr.input)
           stale == {g \in DOMAIN fibers : Len(g) > Len(f) /\ IsPrefix(f, g)}
           future(k) == Push(Idle, Frame(fr.step.step, fr.input[k], fr.ctx, "start"))
       IN  /\ fibers' = [g \in (DOMAIN fibers \ stale) \cup Children(f, n) |->
                           IF g \in Children(f, n) THEN future(g[Len(g)])
                           ELSE IF g = f THEN Goto(fibers[f], "join_all", <<>>)
                           ELSE fibers[g]]
           /\ completed' = SelectSeq(completed, LAMBDA g : ~IsPrefix(f, g))
    /\ UNCHANGED <<ctxs, callers, lastOp, clock, built, states>>

\* mutant: the results are taken in the order the futures completed
ParallelMapStep_run_collect_as_completed(f) ==
    /\ At(f, "ParallelMap", "join_all")
    /\ UNCHANGED <<ctxs, callers, lastOp, clock, built, states>>
    /\ LET n == Len(Top(f).input)
           mine == SelectSeq(completed, LAMBDA g : g \in Children(f, n))
       IN  /\ \A g \in Children(f, n) : fibers[g].stack = <<>>
           /\ Return(f, collect([k \in 1..n |-> fibers[mine[k]].ret]))

\* mutant: the call returns as soon as one future has failed
ParallelMapStep_run_collect_fail_fast(f) ==
    /\ At(f, "ParallelMap", "join_all")
    /\ UNCHANGED <<ctxs, callers, lastOp, clock, built, states>>
    /\ LET n == Len(Top(f).input)
           ready(g) == fibers[g].stack = <<>>
       IN  \/ /\ \A g \in Children(f, n) : ready(g)
              /\ Return(f, collect([k \in 1..n |-> fibers[f \o <<k>>].ret]))
           \/ \E g \in Children(f, n) :
                 /\ ready(g)
                 /\ IsErr(fibers[g].ret)
                 /\ Return(f, fibers[g].ret)

\* join_all resolves once every future has; the results are in input order
\* mutant: the call waits for one future more than it has made
ParallelMapStep_run_collect_one_more(f) ==
    /\ At(f, "ParallelMap", "join_all")
    /\ UNCHANGED <<ctxs, callers, lastOp, clock, built, states>>
    /\ LET n == Len(Top(f).input) IN
          /\ \A g \in Children(f, n + 1) :
                g \in DOMAIN fibers /\ fibers[g].stack = <<>>
          /\ Return(f, collect([k \in 1..n |-> fibers[f \o <<k>>].ret]))

ParallelMapStep_run_collect(f) ==
    /\ At(f, "ParallelMap", "join_all")
    /\ UNCHANGED <<ctxs, callers, lastOp, clock, built, states>>
    /\ LET n == Len(Top(f).input) IN
          /\ \A g \in Children(f, n) : fibers[g].stack = <<>>
          /\ Return(f, collect([k \in 1..n |-> fibers[f \o <<k>>].ret]))

----------------------------------------------------------------------------
(* step/batch.rs *)

\* the top of the `for item in input` loop: the items in rest are still to
\* be run
SingleItemAdapter_run_loop(f, results, rest) ==
    LET fr == Top(f) IN
    IF rest = <<>>
      THEN Return(f, Ok(results))
      ELSE Await(f, fr.step.step, Head(rest), fr.ctx, "item",
                 [results |-> results, rest |-> Tail(rest)])

SingleItemAdapter_run_start(f) ==
    /\ At(f, "SingleItemAdapter", "start")
    /\ UNCHANGED <<ctxs, callers, lastOp, clock, built, states>>
    /\ SingleItemAdapter_run_loop(f, <<>>, Top(f).input)

\* mutant: when an item fails the results so far are returned
SingleItemAdapter_run_push_or_stop(f) ==
    /\ At(f, "SingleItemAdapter", "item")
    /\ UNCHANGED <<ctxs, callers, lastOp, clock, built, states>>
    /\ Returned(f)
    /\ LET fr == Top(f)
           result == fibers[f].ret
       IN  IF IsErr(result)
             THEN Return(f, Ok(fr.loc.results))
             ELSE SingleItemAdapter_run_loop(f, Append(fr.loc.results, result.val),
                                             fr.loc.rest)

\* `results.push(self.step.run(ctx, item).await?)`: the call has completed
SingleItemAdapter_run_push(f) ==
    /\ At(f, "SingleItemAdapter", "item")
    /\ UNCHANGED <<ctxs, callers, lastOp, clock, built, states>>
    /\ Returned(f)
    /\ LET fr == Top(f)
           result == fibers[f].ret
       IN  IF IsErr(result)
             THEN Return(f, result)
             ELSE SingleItemAdapter_run_loop(f, Append(fr.loc.results, result.val),
                                             fr.loc.rest)

Panic(msg) == [kind |-> "panic", msg |-> msg]

\* mutant: the chunk size is not checked
BatchStep_new_unchecked(step, batch_size) ==
    [kind |-> "Batch", step |-> step, batch_size |-> batch_size]

\* BatchStep::new: the step, or the panic of the assert!
BatchStep_new(step, batch_size) ==
    IF batch_size > 0
      THEN [kind |-> "Batch", step |-> step, batch_size |-> batch_size]
      ELSE Panic("batch_size must be greater than zero")

\* usize::min
Min(a, b) == IF a <= b THEN a ELSE b

\* the top of the `while !remaining.is_empty()` loop
BatchStep_run_loop(f, all_outputs, remaining) ==
    LET fr == Top(f)
        batch_size == Min(fr.step.batch_size, Len(remaining))
        batch == SubSeq(remaining, 1, batch_size)
    IN  IF remaining = <<>>
          THEN Return(f, Ok(all_outputs))
          ELSE Await(f, fr.step.step, batch, fr.ctx, "chunk",
                     [all_outputs |-> all_outputs,
                      remaining |-> SubSeq(remaining, batch_size + 1, Len(remaining))])

BatchStep_run_start(f) ==
    /\ At(f, "Batch", "start")
    /\ UNCHANGED <<ctxs, callers, lastOp, clock, built, states>>
    /\ BatchStep_run_loop(f, <<>>, Top(f).input)

\* mutant: the outputs of a chunk are put before those of the earlier chunks
BatchStep_run_extend_in_front(f) ==
    /\ At(f, "Batch", "chunk")
    /\ UNCHANGED <<ctxs, callers, lastOp, clock, built, states>>
    /\ Returned(f)
    /\ LET fr == Top(f)
           outputs == fibers[f].ret
       IN  IF IsErr(outputs)
             THEN Return(f, outputs)
             ELSE BatchStep_run_loop(f, outputs.val \o fr.loc.all_outputs,
                                     fr.loc.remaining)

\* mutant: a failed chunk is skipped and the remaining chunks are dispatched
BatchStep_run_extend_or_skip(f) ==
    /\ At(f, "Batch", "chunk")
    /\ UNCHANGED <<ctxs, callers, lastOp, clock, built, states>>
    /\ Returned(f)
    /\ LET fr == Top(f)
           outputs == fibers[f].ret
       IN  IF IsErr(outputs)
             THEN BatchStep_run_loop(f, fr.loc.all_outputs, fr.loc.remaining)
             ELSE BatchStep_run_loop(f, fr.loc.all_outputs \o outputs.val,
                                     fr.loc.remaining)

\* `let outputs = self.step.run(ctx, batch).await?` has completed
BatchStep_run_extend(f) ==
    /\ At(f, "Batch", "chunk")
    /\ UNCHANGED <<ctxs, callers, lastOp, clock, built, states>>
    /\ Returned(f)
    /\ LET fr == Top(f)
           outputs == fibers[f].ret
       IN  IF IsErr(outputs)
             THEN Return(f, outputs)
             ELSE BatchStep_run_loop(f, fr.loc.all_outputs \o outputs.val,
                                     fr.loc.remaining)

\* a caller constructs a BatchStep over a step it has built; a caller does
\* this once, before it runs anything
Call_BatchStep_new(t) ==
    /\ callers[t].calls = 0
    /\ lastOp.op # "BatchStep::new"
    /\ \E step \in built, batch_size \in 0..MaxBatch :
          LET made == BatchStep_new(step, batch_size) IN
             /\ step.kind = "SingleItemAdapter"
             /\ built' = IF made.kind = "panic" THEN built ELSE built \cup {made}
             /\ lastOp' = [op |-> "BatchStep::new", ctx |-> 0, seq |-> lastOp.seq + 1,
                           batch_size |-> batch_size,
                           panic |-> IF made.kind = "panic" THEN made.msg ELSE ""]
    /\ UNCHANGED <<ctxs, callers, clock, fibers, completed, states>>

----------------------------------------------------------------------------
(* step/branch.rs *)

\* the predicate results the fiber has seen for this step so far, in order
Evaluations(fb, step) ==
    SelectSeq(fb.log, LAMBDA e : e.ev = "predicate" /\ e.step = step)

\* mutant: the predicate is asked once and its answer kept for later calls
BranchStep_run_route_memoized(f) ==
    /\ At(f, "Branch", "start")
    /\ UNCHANGED <<ctxs, callers, lastOp, clock, built, completed, states>>
    /\ LET fr == Top(f)
           seen == Evaluations(fibers[f], fr.step)
           taken == IF seen = <<>> THEN fr.step.predicate[fr.input] ELSE seen[1].result
           branch == IF taken THEN fr.step.left ELSE fr.step.right
       IN  fibers' = [fibers EXCEPT
                         ![f] = Push(Goto(Eval(@, taken), "branch", <<>>),
                                     Frame(branch, fr.input, fr.ctx, "start"))]

\* `if (self.predicate)(&input)`, then the call of the branch taken
BranchStep_run_route(f) ==
    /\ At(f, "Branch", "start")
    /\ UNCHANGED <<ctxs, callers, lastOp, clock, built, completed, states>>
    /\ LET fr == Top(f)
           taken == fr.step.predicate[fr.input]
           branch == IF taken THEN fr.step.left ELSE fr.step.right
       IN  fibers' = [fibers EXCEPT
                         ![f] = Push(Goto(Eval(@, taken), "branch", <<>>),
                                     Frame(branch, fr.input, fr.ctx, "start"))]

\* the branch taken has completed: its result is the result
BranchStep_run_return(f) ==
    /\ At(f, "Branch", "branch")
    /\ UNCHANGED <<ctxs, callers, lastOp, clock, built, states>>
    /\ Returned(f)
    /\ Return(f, fibers[f].ret)

----------------------------------------------------------------------------
(* checkpoint.rs *)

\* mutant: the checkpoint is also recorded as a failure in the context
CheckpointStep_run_recording(f) ==
    /\ At(f, "Checkpoint", "start")
    /\ UNCHANGED <<callers, lastOp, clock, built, states>>
    /\ LET fr == Top(f)
           e == Checkpoint(fr.step.step_name, to_value("i32", fr.input))
       IN  /\ ctxs' = [ctxs EXCEPT ![fr.ctx] = record_failure(@, to_string(e))]
           /\ Return(f, Err(e))

CheckpointStep_run(f) ==
    /\ At(f, "Checkpoint", "start")
    /\ UNCHANGED <<ctxs, callers, lastOp, clock, built, states>>
    /\ LET fr == Top(f) IN
          Return(f, Err(Checkpoint(fr.step.step_name, to_value("i32", fr.input))))

\* mutant: the checkpoint is taken when the predicate is false
ConditionalCheckpointStep_run_inverted(f) ==
    /\ At(f, "ConditionalCheckpoint", "start")
    /\ UNCHANGED <<ctxs, callers, lastOp, clock, built, states>>
    /\ LET fr == Top(f) IN
          IF ~fr.step.predicate[fr.input]
            THEN Return(f, Err(Checkpoint(fr.step.step_name, to_value("i32", fr.input))))
            ELSE Return(f, Ok(fr.input))

ConditionalCheckpointStep_run(f) ==
    /\ At(f, "ConditionalCheckpoint", "start")
    /\ UNCHANGED <<ctxs, callers, lastOp, clock, built, states>>
    /\ LET fr == Top(f) IN
          IF fr.step.predicate[fr.input]
            THEN Return(f, Err(Checkpoint(fr.step.step_name, to_value("i32", fr.input))))
            ELSE Return(f, Ok(fr.input))

----------------------------------------------------------------------------
(* instrumented.rs *)

\* mutant: the wrapped step is started without a StepStart event
InstrumentedStep_run_start_unannounced(f) ==
    /\ At(f, "Instrumented", "start")
    /\ LET fr == Top(f) IN
          /\ ctxs' = ctxs
          /\ Await(f, fr.step.inner, fr.input, fr.ctx, "inner", [start |-> clock])
    /\ UNCHANGED <<callers, lastOp, clock, built, states>>

InstrumentedStep_run_start(f) ==
    /\ At(f, "Instrumented", "start")
    /\ LET fr == Top(f) IN
          /\ ctxs' = [ctxs EXCEPT
                         ![fr.ctx] = emit(@, StepStart(fr.step.name, type_name(fr.step.inner)), clock)]
          /\ Await(f, fr.step.inner, fr.input, fr.ctx, "inner", [start |-> clock])
    /\ UNCHANGED <<callers, lastOp, clock, built, states>>

\* mutant: the metrics are written back from a copy read before the call
InstrumentedStep_run_record_stale(f) ==
    /\ At(f, "Instrumented", "inner")
    /\ Returned(f)
    /\ LET fr == Top(f)
           result == fibers[f].ret
           duration_ms == clock - fr.loc.start
           stale == [ctxs[fr.ctx] EXCEPT !.metrics = callers[f[1]].before.metrics]
       IN  /\ ctxs' = [ctxs EXCEPT
                          ![fr.ctx] = IF IsOk(result)
                                        THEN record_step(stale)
                                        ELSE record_failure(stale, to_string(result.err))]
           /\ fibers' = [fibers EXCEPT
                            ![f] = Goto(@, "emit", [result |-> result, duration_ms |-> duration_ms])]
    /\ UNCHANGED <<callers, lastOp, clock, built, completed, states>>

\* mutant: a step is recorded whatever the inner step returned
InstrumentedStep_run_record_counting_errors(f) ==
    /\ At(f, "Instrumented", "inner")
    /\ Returned(f)
    /\ LET fr == Top(f)
           result == fibers[f].ret
           duration_ms == clock - fr.loc.start
       IN  /\ ctxs' = [ctxs EXCEPT
                          ![fr.ctx] = IF IsOk(result)
                                        THEN record_step(@)
                                        ELSE record_failure(record_step(@), to_string(result.err))]
           /\ fibers' = [fibers EXCEPT
                            ![f] = Goto(@, "emit", [result |-> result, duration_ms |-> duration_ms])]
    /\ UNCHANGED <<callers, lastOp, clock, built, completed, states>>

\* mutant: the wrapper also counts the call as one prompt token
InstrumentedStep_run_record_with_tokens(f) ==
    /\ At(f, "Instrumented", "inner")
    /\ Returned(f)
    /\ LET fr == Top(f)
           result == fibers[f].ret
           duration_ms == clock - fr.loc.start
       IN  /\ ctxs' = [ctxs EXCEPT
                          ![fr.ctx] = IF IsOk(result)
                                        THEN record_tokens(record_step(@), 1, 0)
                                        ELSE record_failure(@, to_string(result.err))]
           /\ fibers' = [fibers EXCEPT
                            ![f] = Goto(@, "emit", [result |-> result, duration_ms |-> duration_ms])]
    /\ UNCHANGED <<callers, lastOp, clock, built, completed, states>>

\* the inner step has completed: the first statement of either match arm
InstrumentedStep_run_record(f) ==
    /\ At(f, "Instrumented", "inner")
    /\ Returned(f)
    /\ LET fr == Top(f)
           result == fibers[f].ret
           duration_ms == clock - fr.loc.start
       IN  /\ ctxs' = [ctxs EXCEPT
                          ![fr.ctx] = IF IsOk(result)
                                        THEN record_step(@)
                                        ELSE record_failure(@, to_string(result.err))]
           /\ fibers' = [fibers EXCEPT
                            ![f] = Goto(@, "emit", [result |-> result, duration_ms |-> duration_ms])]
    /\ UNCHANGED <<callers, lastOp, clock, built, completed, states>>

\* mutant: a failure of the wrapped step is replaced by its input
InstrumentedStep_run_emit_recovering(f) ==
    /\ At(f, "Instrumented", "emit")
    /\ LET fr == Top(f)
           result == fr.loc.result
       IN  /\ ctxs' = [ctxs EXCEPT
                          ![fr.ctx] = IF IsOk(result)
                                        THEN emit(@, StepEnd(fr.step.name, fr.loc.duration_ms), clock)
                                        ELSE emit(@, ErrorEvent(fr.step.name, to_string(result.err)), clock)]
           /\ Return(f, IF IsOk(result) THEN result ELSE Ok(fr.input))
    /\ UNCHANGED <<callers, lastOp, clock, built, states>>

\* the second statement of the match arm, then `result`
InstrumentedStep_run_emit(f) ==
    /\ At(f, "Instrumented", "emit")
    /\ LET fr == Top(f)
           result == fr.loc.result
       IN  /\ ctxs' = [ctxs EXCEPT
                          ![fr.ctx] = IF IsOk(result)
                                        THEN emit(@, StepEnd(fr.step.name, fr.loc.duration_ms), clock)
                                        ELSE emit(@, ErrorEvent(fr.step.name, to_string(result.err)), clock)]
           /\ Return(f, result)
    /\ UNCHANGED <<callers, lastOp, clock, built, states>>

----------------------------------------------------------------------------
(* step/map.rs *)

MapStep_new(step, f) == [kind |-> "Map", step |-> step, f |-> f]

\* `self.step.run(ctx, input).await`
MapStep_run_start(f) ==
    /\ At(f, "Map", "start")
    /\ UNCHANGED <<ctxs, callers, lastOp, clock, built, states>>
    /\ LET fr == Top(f) IN
          Await(f, fr.step.step, fr.input, fr.ctx, "step", <<>>)

\* mutant: the transform is applied to its own result once more
MapStep_run_return_twice(f) ==
    /\ At(f, "Map", "step")
    /\ UNCHANGED <<ctxs, callers, lastOp, clock, built, states>>
    /\ Returned(f)
    /\ LET fr == Top(f)
           result == fibers[f].ret
       IN  IF IsErr(result)
             THEN Return(f, result)
             ELSE LET once == fr.step.f[result.val]
                      twice == IF once \in DOMAIN fr.step.f
                                 THEN fr.step.f[once] ELSE once
                  IN  ReturnFrom(f, Closure(Closure(fibers[f], "transform",
                                                    result.val, once),
                                            "transform", once, twice),
                                 Ok(twice))

\* the `?` on the result, then `Ok((self.f)(output))`
MapStep_run_return(f) ==
    /\ At(f, "Map", "step")
    /\ UNCHANGED <<ctxs, callers, lastOp, clock, built, states>>
    /\ Returned(f)
    /\ LET fr == Top(f)
           result == fibers[f].ret
       IN  IF IsErr(result)
             THEN Return(f, result)
             ELSE LET output == fr.step.f[result.val] IN
                  ReturnFrom(f, Closure(fibers[f], "transform", result.val, output),
                             Ok(output))

----------------------------------------------------------------------------
(* step/tap.rs *)

\* the observer is known by its name f
TapStep_new(step, f) == [kind |-> "Tap", step |-> step, observer |-> f]

\* `self.step.run(ctx, input).await`
TapStep_run_start(f) ==
    /\ At(f, "Tap", "start")
    /\ UNCHANGED <<ctxs, callers, lastOp, clock, built, states>>
    /\ LET fr == Top(f) IN
          Await(f, fr.step.step, fr.input, fr.ctx, "step", <<>>)

\* mutant: the observer is shown a failure too
TapStep_run_return_observing_errors(f) ==
    /\ At(f, "Tap", "step")
    /\ UNCHANGED <<ctxs, callers, lastOp, clock, built, states>>
    /\ Returned(f)
    /\ LET result == fibers[f].ret
           seen == IF IsErr(result) THEN result.err ELSE result.val
       IN  ReturnFrom(f, Closure(fibers[f], "observe", seen, <<>>), result)

\* mutant: a failure of the wrapped step is returned as an Execution error
TapStep_run_return_converting(f) ==
    /\ At(f, "Tap", "step")
    /\ UNCHANGED <<ctxs, callers, lastOp, clock, built, states>>
    /\ Returned(f)
    /\ LET result == fibers[f].ret
       IN  IF IsErr(result)
             THEN Return(f, Err(Execution(to_string(result.err))))
             ELSE ReturnFrom(f, Closure(fibers[f], "observe", result.val, <<>>),
                             result)

\* the `?` on the result, then `(self.f)(&output); Ok(output)`
TapStep_run_return(f) ==
    /\ At(f, "Tap", "step")
    /\ UNCHANGED <<ctxs, callers, lastOp, clock, built, states>>
    /\ Returned(f)
    /\ LET result == fibers[f].ret
       IN  IF IsErr(result)
             THEN Return(f, result)
             ELSE ReturnFrom(f, Closure(fibers[f], "observe", result.val, <<>>),
                             result)

----------------------------------------------------------------------------
(* state.rs *)

\* <u32 as Default>::default()
State_default == 0

\* the states a stateful step may be run with
States == 0..(MaxCalls + MaxItems + 1)

\* `|count, x| Ok((format!("#{count}: {x}"), count + 1))`, the stateful step
\* of the crate's examples, failing on the inputs in fails
CounterFn(fails) ==
    [a \in [state : States, input : Vals] |->
        IF a.input \in fails
          THEN Err(Execution("e1"))
          ELSE Ok(<<[count |-> a.state, x |-> a.input], a.state + 1>>)]

\* a stateful step that adds its inputs up, failing on the inputs in fails
SumFn(fails) ==
    [a \in [state : States, input : Vals] |->
        IF a.input \in fails
          THEN Err(Message("e2"))
          ELSE Ok(<<[count |-> a.state + a.input, x |-> a.input],
                    a.state + a.input>>)]

StateFns == {CounterFn(fails) : fails \in SUBSET Vals}
               \cup {SumFn(fails) : fails \in SUBSET Vals}

\* a user-written stateful step (LambdaStateStep)
UserStateStep(id, f) == [kind |-> "StateStep", id |-> id, f |-> f]

\* StepAdapter::new, cell being the Arc<Mutex<State>> it allocates
StepAdapter_new(step, cell) == [kind |-> "StepAdapter", step |-> step, state |-> cell]

\* LambdaStateStep::run: the future of the closure completes
StateStep_run(f) ==
    /\ At(f, "StateStep", "start")
    /\ UNCHANGED <<ctxs, callers, lastOp, clock, built, states>>
    /\ Return(f, Top(f).step.f[Top(f).input])

\* mutant: every call runs the inner step with the default state
StepAdapter_run_read_default(f) ==
    /\ At(f, "StepAdapter", "start")
    /\ UNCHANGED <<ctxs, callers, lastOp, clock, built, states>>
    /\ LET fr == Top(f) IN
          Await(f, fr.step.step, [state |-> State_default, input |-> fr.input],
                fr.ctx, "inner", <<>>)

\* `let state = { let guard = self.state.lock().unwrap(); guard.clone() }`
\* and the call of the inner step
StepAdapter_run_read(f) ==
    /\ At(f, "StepAdapter", "start")
    /\ UNCHANGED <<ctxs, callers, lastOp, clock, built, states>>
    /\ LET fr == Top(f)
           state == states[fr.step.state]
       IN  Await(f, fr.step.step, [state |-> state, input |-> fr.input],
                 fr.ctx, "inner", <<>>)

\* mutant: the state is written back only if it is still the state read
StepAdapter_run_write_if_unchanged(f) ==
    /\ At(f, "StepAdapter", "inner")
    /\ UNCHANGED <<ctxs, callers, lastOp, clock, built>>
    /\ Returned(f)
    /\ LET fr == Top(f)
           result == fibers[f].ret
           read == LET log == fibers[f].log
                       calls == {i \in 1..Len(log) :
                                    log[i].ev = "call" /\ log[i].step.kind = "StateStep"}
                   IN  log[CHOOSE i \in calls : \A j \in calls : j <= i].input.state
       IN  IF IsErr(result)
             THEN /\ states' = states
                  /\ Return(f, result)
             ELSE /\ states' = IF states[fr.step.state] = read
                                 THEN [states EXCEPT ![fr.step.state] = result.val[2]]
                                 ELSE states
                  /\ Return(f, Ok(result.val[1]))

\* mutant: a failed inner call puts the default state in the cell
StepAdapter_run_write_or_reset(f) ==
    /\ At(f, "StepAdapter", "inner")
    /\ UNCHANGED <<ctxs, callers, lastOp, clock, built>>
    /\ Returned(f)
    /\ LET fr == Top(f)
           result == fibers[f].ret
       IN  IF IsErr(result)
             THEN /\ states' = [states EXCEPT ![fr.step.state] = State_default]
                  /\ Return(f, result)
             ELSE /\ states' = [states EXCEPT ![fr.step.state] = result.val[2]]
                  /\ Return(f, Ok(result.val[1]))

\* mutant: the write-back adds the step's progress to the state in the cell
StepAdapter_run_write_merging(f) ==
    /\ At(f, "StepAdapter", "inner")
    /\ UNCHANGED <<ctxs, callers, lastOp, clock, built>>
    /\ Returned(f)
    /\ LET fr == Top(f)
           result == fibers[f].ret
           read == LET log == fibers[f].log IN log[Len(log)].input.state
       IN  IF IsErr(result)
             THEN /\ states' = states
                  /\ Return(f, result)
             ELSE /\ states' = [states EXCEPT
                                   ![fr.step.state] = @ + (result.val[2] - read)]
                  /\ Return(f, Ok(result.val[1]))

\* the inner call has completed: `?`, then `*guard = new_state` and
\* `Ok(output)`
StepAdapter_run_write(f) ==
    /\ At(f, "StepAdapter", "inner")
    /\ UNCHANGED <<ctxs, callers, lastOp, clock, built>>
    /\ Returned(f)
    /\ LET fr == Top(f)
           result == fibers[f].ret
       IN  IF IsErr(result)
             THEN /\ states' = states
                  /\ Return(f, result)
             ELSE /\ states' = [states EXCEPT ![fr.step.state] = result.val[2]]
                  /\ Return(f, Ok(result.val[1]))

\* `adapter.reset()` by a caller that has no call in progress
Call_StepAdapter_reset(t) ==
    /\ CanCall
    /\ fibers[<<t>>].stack = <<>>
    /\ \E s \in built :
          /\ s.kind = "StepAdapter"
          /\ states' = [states EXCEPT ![s.state] = State_default]
          /\ fibers' = [fibers EXCEPT
                           ![<<t>>].log = Append(@, [ev |-> "reset", depth |-> 1,
                                                    step |-> s])]
    /\ lastOp' = [op |-> "reset", ctx |-> 0, seq |-> lastOp.seq + 1]
    /\ UNCHANGED <<ctxs, callers, clock, built, completed>>

\* `adapter.reset()` by another task that shares the adapter, while the
\* call of caller t is in progress
Shared_StepAdapter_reset(t) ==
    /\ CanCall
    /\ fibers[<<t>>].stack # <<>>
    /\ \E s \in built :
          /\ s.kind = "StepAdapter"
          /\ states' = [states EXCEPT ![s.state] = State_default]
          /\ fibers' = [fibers EXCEPT
                           ![<<t>>].log = Append(@, [ev |-> "reset", depth |-> 1,
                                                    step |-> s])]
    /\ lastOp' = [op |-> "reset", ctx |-> 0, seq |-> lastOp.seq + 1]
    /\ UNCHANGED <<ctxs, callers, clock, built, completed>>

----------------------------------------------------------------------------
(* workflow.rs *)

\* mutant: the run uses the first context of the program instead of a new one
Workflow_run_start_on_shared_context(f) ==
    /\ At(f, "Workflow", "run")
    /\ LET fr == Top(f)
           ctx == 1
       IN  /\ ctxs' = ctxs
           /\ fibers' = [fibers EXCEPT
                            ![f] = Push(Goto(@, "run_step", [ctx |-> ctx]),
                                        Frame(fr.step.step, fr.input, ctx, "start"))]
    /\ UNCHANGED <<callers, lastOp, clock, built, completed, states>>

\* `let ctx = ExecutionContext::new(); self.step.run(&ctx, input)`
Workflow_run_start(f) ==
    /\ At(f, "Workflow", "run")
    /\ LET fr == Top(f)
           ctx == Len(ctxs) + 1
       IN  /\ ctxs' = Append(ctxs, ExecutionContext_new)
           /\ fibers' = [fibers EXCEPT
                            ![f] = Push(Goto(@, "run_step", [ctx |-> ctx]),
                                        Frame(fr.step.step, fr.input, ctx, "start"))]
    /\ UNCHANGED <<callers, lastOp, clock, built, completed, states>>

\* mutant: the run returns the metrics without recording a step
Workflow_run_finish_without_record(f) ==
    /\ At(f, "Workflow", "run_step")
    /\ Returned(f)
    /\ LET fr == Top(f)
           result == fibers[f].ret
           ctx == fr.loc.ctx
       IN  /\ ctxs' = ctxs
           /\ IF IsErr(result)
                THEN Return(f, result)
                ELSE Return(f, Ok([output |-> result.val, metrics |-> snapshot(ctxs[ctx])]))
    /\ UNCHANGED <<callers, lastOp, clock, built, states>>

\* `self.step.run(&ctx, input).await?` has completed
Workflow_run_finish(f) ==
    /\ At(f, "Workflow", "run_step")
    /\ Returned(f)
    /\ LET fr == Top(f)
           result == fibers[f].ret
           ctx == fr.loc.ctx
       IN  IF IsErr(result)
             THEN /\ ctxs' = ctxs
                  /\ Return(f, result)
             ELSE /\ ctxs' = [ctxs EXCEPT ![ctx] = record_step(@)]
                  /\ Return(f, Ok([output |-> result.val, metrics |-> snapshot(ctxs'[ctx])]))
    /\ UNCHANGED <<callers, lastOp, clock, built, states>>

Workflow_run_with_ctx_start(f) ==
    /\ At(f, "Workflow", "run_with_ctx")
    /\ UNCHANGED <<ctxs, callers, lastOp, clock, built, states>>
    /\ LET fr == Top(f) IN
          Await(f, fr.step.step, fr.input, fr.ctx, "run_with_ctx_step", <<>>)

\* mutant: run_with_ctx records a step on success, as run does
Workflow_run_with_ctx_finish_recording(f) ==
    /\ At(f, "Workflow", "run_with_ctx_step")
    /\ Returned(f)
    /\ ctxs' = IF IsOk(fibers[f].ret)
                THEN [ctxs EXCEPT ![Top(f).ctx] = record_step(@)]
                ELSE ctxs
    /\ UNCHANGED <<callers, lastOp, clock, built, states>>
    /\ Return(f, fibers[f].ret)

\* `self.step.run(ctx, input).await` has completed: its result is the result
Workflow_run_with_ctx_finish(f) ==
    /\ At(f, "Workflow", "run_with_ctx_step")
    /\ UNCHANGED <<ctxs, callers, lastOp, clock, built, states>>
    /\ Returned(f)
    /\ Return(f, fibers[f].ret)

----------------------------------------------------------------------------
(* The callers: each awaits one call at a time *)

CanInvoke(t) ==
    /\ fibers[<<t>>].stack = <<>>
    /\ callers[t].calls < callers[t].limit

\* the caller notes the context as it is before the call
Invoke(t, fr) ==
    /\ fibers' = [fibers EXCEPT ![<<t>>] = Push(@, fr)]
    /\ callers' = [callers EXCEPT ![t].calls = @ + 1,
                                  ![t].before = IF fr.ctx \in DOMAIN ctxs
                                                  THEN ctxs[fr.ctx]
                                                  ELSE ExecutionContext_new]
    /\ UNCHANGED <<ctxs, lastOp, clock, built, completed, states>>

\* `step.run(&ctx, input)` on a step
Call_Step_run(t) ==
    /\ CanInvoke(t)
    /\ \E s \in built, h \in Handles(t) :
          /\ s.kind # "Workflow"
          /\ \E input \in InputsOf(s) :
                Invoke(t, Frame(s, input, callers[t].handles[h], "start"))

\* `workflow.run(input)`
Call_Workflow_run(t) ==
    /\ CanInvoke(t)
    /\ \E w \in built :
          /\ w.kind = "Workflow"
          /\ \E input \in InputsOf(w) :
                Invoke(t, Frame(w, input, 0, "run"))

\* `workflow.run_with_ctx(&ctx, input)`
Call_Workflow_run_with_ctx(t) ==
    /\ CanInvoke(t)
    /\ \E w \in built, h \in Handles(t) :
          /\ w.kind = "Workflow"
          /\ \E input \in InputsOf(w) :
                Invoke(t, Frame(w, input, callers[t].handles[h], "run_with_ctx"))

----------------------------------------------------------------------------
(* The state when every caller holds a handle to one context and makes at  *)
(* most `limit` calls of a step or workflow; nothing is running            *)

\* a context on which one instrumented step has succeeded and one has failed
UsedContext ==
    LET e == Execution("e1") IN
    [metrics |-> [WorkflowMetrics_default EXCEPT
                     !.steps_completed = 1,
                     !.failures = <<to_string(e)>>],
     traces |-> <<TraceEntry_new(StepStart("W", "i32"), 0),
                  TraceEntry_new(StepEnd("W", 0), 0),
                  TraceEntry_new(StepStart("W", "i32"), 0),
                  TraceEntry_new(ErrorEvent("W", to_string(e)), 0)>>]

InitCallers(ctx, limit) ==
    /\ ctxs = <<ctx>>
    /\ callers = [t \in Callers |->
                    [handles |-> <<1>>,
                     snapshot |-> WorkflowMetrics_default,
                     trace_snapshot |-> <<>>,
                     trace_snapshot_of |-> 0,
                     before |-> ctx,
                     calls |-> 0,
                     limit |-> limit]]
    /\ lastOp = [op |-> "new", ctx |-> 1, seq |-> 0]
    /\ clock = 0
    /\ fibers = [f \in {<<t>> : t \in Callers} |-> Idle]
    /\ completed = <<>>

\* the same, in a program that has no StepAdapter
InitContext(ctx, limit) ==
    /\ InitCallers(ctx, limit)
    /\ states = <<>>

\* what a user-written step over i32 may return
Outcomes == {Ok(v) : v \in Vals} \cup {Err(Execution("e1")), Err(Message("e2"))}

UserFns == [Vals -> Outcomes]

----------------------------------------------------------------------------
(* SpecCtx: the callers use the ExecutionContext API only *)

InitCtx ==
    /\ InitContext(ExecutionContext_new, 0)
    /\ built = {}

NextCtx ==
    \E t \in Callers :
        \/ Call_new(t)
        \/ Call_clone(t)
        \/ Call_record_prompt_tokens(t)
        \/ Call_record_completion_tokens(t)
        \/ Call_record_tokens(t)
        \/ Call_record_step(t)
        \/ Call_record_failure(t)
        \/ Call_emit(t)
        \/ Call_emit_artifact(t)
        \/ Call_snapshot(t)
        \/ Call_trace_snapshot(t)
        \/ Call_clear_traces(t)

SpecCtx == InitCtx /\ [][NextCtx]_vars

----------------------------------------------------------------------------
(* SpecClock: threads emitting through clones of one context while the      *)
(* clock advances                                                           *)

InitClock ==
    /\ InitContext(ExecutionContext_new, 0)
    /\ built = {}

NextClock ==
    \/ Tick
    \/ \E t \in Callers : Call_spawn(t)
    \/ \E g \in FiberIds :
          \/ emit_TraceEntry_new(g)
          \/ emit_push(g)

SpecClock == InitClock /\ [][NextClock]_vars

----------------------------------------------------------------------------
(* SpecChain: a chain of two user-written steps, the second one recording  *)
(* tokens in the context                                                   *)

InitChain ==
    /\ InitContext(ExecutionContext_new, MaxCalls)
    /\ \E fa \in UserFns, fb \in UserFns :
          built = {ChainStep_new(UserStep("A", fa, "none"), UserStep("B", fb, "tokens"))}

NextChain ==
    \/ \E t \in Callers : Call_Step_run(t)
    \/ \E f \in FiberIds :
          \/ Step_run(f)
          \/ ChainStep_run_first(f)
          \/ ChainStep_run_second(f)
          \/ ChainStep_run_return(f)

SpecChain == InitChain /\ [][NextChain]_vars

----------------------------------------------------------------------------
(* SpecTuple: a tuple fan-out of two user-written steps, the first one      *)
(* recording tokens and the second one emitting an artifact                *)

InitTuple ==
    /\ InitContext(ExecutionContext_new, MaxCalls)
    /\ \E fa \in UserFns, fb \in UserFns :
          built = {ChainTupleStep_new(UserStep("A", fa, "tokens"),
                                      UserStep("B", fb, "artifact"))}

NextTuple ==
    \/ \E t \in Callers : Call_Step_run(t)
    \/ \E f \in FiberIds :
          \/ Step_run(f)
          \/ ChainTupleStep_run_first(f)
          \/ ChainTupleStep_run_second(f)
          \/ ChainTupleStep_run_return(f)

SpecTuple == InitTuple /\ [][NextTuple]_vars

----------------------------------------------------------------------------
(* SpecBatch: a SingleItemAdapter over a user-written step, and a BatchStep *)
(* the caller constructs over the adapter with some chunk size; one call   *)

InitBatch ==
    /\ InitContext(ExecutionContext_new, 1)
    /\ \E fw \in UserFns :
          built = {SingleItemAdapter_new(UserStep("W", fw, "none"))}

NextBatch ==
    \/ \E t \in Callers :
          \/ Call_BatchStep_new(t)
          \/ Call_Step_run(t)
    \/ \E f \in FiberIds :
          \/ Step_run(f)
          \/ SingleItemAdapter_run_start(f)
          \/ SingleItemAdapter_run_push(f)
          \/ BatchStep_run_start(f)
          \/ BatchStep_run_extend(f)

SpecBatch == InitBatch /\ [][NextBatch]_vars

----------------------------------------------------------------------------
(* SpecBranch: a branch between two user-written steps, the left one        *)
(* recording tokens and the right one emitting an artifact                 *)

Predicates == [Vals -> BOOLEAN]

InitBranch ==
    /\ InitContext(ExecutionContext_new, MaxCalls)
    /\ \E predicate \in Predicates, fl \in UserFns, fr \in UserFns :
          built = {BranchStep_new(predicate, UserStep("L", fl, "tokens"),
                                  UserStep("R", fr, "artifact"))}

NextBranch ==
    \/ \E t \in Callers : Call_Step_run(t)
    \/ \E f \in FiberIds :
          \/ Step_run(f)
          \/ BranchStep_run_route(f)
          \/ BranchStep_run_return(f)

SpecBranch == InitBranch /\ [][NextBranch]_vars

----------------------------------------------------------------------------
(* SpecCheckpoint: a CheckpointStep and a ConditionalCheckpointStep, called *)
(* with a context that is new or has been used by an earlier run           *)

InitCheckpoint ==
    /\ \E ctx \in {ExecutionContext_new, UsedContext} : InitContext(ctx, MaxCalls)
    /\ \E name \in StepNames, gate \in StepNames, predicate \in Predicates :
          built = {CheckpointStep_new(name),
                   ConditionalCheckpointStep_new(gate, predicate)}

NextCheckpoint ==
    \/ \E t \in Callers : Call_Step_run(t)
    \/ \E f \in FiberIds :
          \/ CheckpointStep_run(f)
          \/ ConditionalCheckpointStep_run(f)

SpecCheckpoint == InitCheckpoint /\ [][NextCheckpoint]_vars

----------------------------------------------------------------------------
(* SpecAdapter: one caller runs a StepAdapter over a user-written stateful  *)
(* step, one call after the other, and resets it between calls             *)

InitAdapter ==
    /\ InitCallers(ExecutionContext_new, MaxCalls + 2)
    /\ states = <<State_default>>
    /\ \E f \in StateFns : built = {StepAdapter_new(UserStateStep("S", f), 1)}

NextAdapter ==
    \/ \E t \in Callers :
          \/ Call_Step_run(t)
          \/ Call_StepAdapter_reset(t)
    \/ \E f \in FiberIds :
          \/ StepAdapter_run_read(f)
          \/ StateStep_run(f)
          \/ StepAdapter_run_write(f)

SpecAdapter == InitAdapter /\ [][NextAdapter]_vars

----------------------------------------------------------------------------
(* SpecAdapterReset: a StepAdapter driven by one caller and reset, at any   *)
(* time, by a task that shares it                                          *)

InitAdapterReset ==
    /\ InitCallers(ExecutionContext_new, MaxCalls)
    /\ states = <<State_default>>
    /\ \E f \in StateFns : built = {StepAdapter_new(UserStateStep("S", f), 1)}

NextAdapterReset ==
    \/ \E t \in Callers :
          \/ Call_Step_run(t)
          \/ Call_StepAdapter_reset(t)
          \/ Shared_StepAdapter_reset(t)
    \/ \E f \in FiberIds :
          \/ StepAdapter_run_read(f)
          \/ StateStep_run(f)
          \/ StepAdapter_run_write(f)

SpecAdapterReset == InitAdapterReset /\ [][NextAdapterReset]_vars

----------------------------------------------------------------------------
(* SpecAdapterPar: one call of a ParallelMapStep over a StepAdapter, so     *)
(* that several calls of the adapter are in progress at a time             *)

InitAdapterPar ==
    /\ InitCallers(ExecutionContext_new, 1)
    /\ states = <<State_default>>
    /\ \E f \in StateFns :
          built = {ParallelMapStep_new(StepAdapter_new(UserStateStep("S", f), 1))}

NextAdapterPar ==
    \/ \E t \in Callers : Call_Step_run(t)
    \/ \E f \in FiberIds :
          \/ ParallelMapStep_run_spawn(f)
          \/ ParallelMapStep_run_collect(f)
          \/ StepAdapter_run_read(f)
          \/ StateStep_run(f)
          \/ StepAdapter_run_write(f)

SpecAdapterPar == InitAdapterPar /\ [][NextAdapterPar]_vars

----------------------------------------------------------------------------
(* SpecPar: one call of a ParallelMapStep over an instrumented user-written *)
(* step, with a context that is new or has been used by an earlier run     *)

InitPar ==
    /\ \E ctx \in {ExecutionContext_new, UsedContext} : InitContext(ctx, 1)
    /\ \E fw \in UserFns :
          built = {ParallelMapStep_new(
                      InstrumentedStep_new(UserStep("W", fw, "none"), "W"))}

NextPar ==
    \/ \E t \in Callers : Call_Step_run(t)
    \/ \E f \in FiberIds :
          \/ Step_run(f)
          \/ ParallelMapStep_run_spawn(f)
          \/ ParallelMapStep_run_collect(f)
          \/ InstrumentedStep_run_start(f)
          \/ InstrumentedStep_run_record(f)
          \/ InstrumentedStep_run_emit(f)

SpecPar == InitPar /\ [][NextPar]_vars

----------------------------------------------------------------------------
(* SpecLoops: the combinators that loop over a vector, over a user-written  *)
(* step that returns.  An executor polls every future that can make        *)
(* progress: FairLoops has weak fairness for the steps of each future.      *)

InitLoops ==
    /\ InitContext(ExecutionContext_new, 1)
    /\ \E fw \in UserFns :
          built = {BatchStep_new(SingleItemAdapter_new(UserStep("W", fw, "none")), c) :
                      c \in 1..MaxBatch}
                  \cup {ParallelMapStep_new(UserStep("W", fw, "none"))}

\* a step of future f
Poll(f) ==
    \/ Step_run(f)
    \/ SingleItemAdapter_run_start(f)
    \/ SingleItemAdapter_run_push(f)
    \/ BatchStep_run_start(f)
    \/ BatchStep_run_extend(f)
    \/ ParallelMapStep_run_spawn(f)
    \/ ParallelMapStep_run_collect(f)

NextLoops ==
    \/ \E t \in Callers : Call_Step_run(t)
    \/ \E f \in FiberIds : Poll(f)

SpecLoops == InitLoops /\ [][NextLoops]_vars

FairLoops == SpecLoops /\ \A f \in FiberIds : WF_vars(Poll(f))

----------------------------------------------------------------------------
(* SpecMapTap: a mapped step and a tapped step over a user-written step *)

Transforms == [Vals -> Vals]

InitMapTap ==
    /\ InitContext(ExecutionContext_new, MaxCalls)
    /\ \E fa \in UserFns, g \in Transforms :
          built = {MapStep_new(UserStep("A", fa, "none"), g),
                   TapStep_new(UserStep("A", fa, "none"), "seen")}

NextMapTap ==
    \/ \E t \in Callers : Call_Step_run(t)
    \/ \E f \in FiberIds :
          \/ Step_run(f)
          \/ MapStep_run_start(f)
          \/ MapStep_run_return(f)
          \/ TapStep_run_start(f)
          \/ TapStep_run_return(f)

SpecMapTap == InitMapTap /\ [][NextMapTap]_vars

----------------------------------------------------------------------------
(* SpecNest: one pipeline nested from all the sequential combinators.  Each *)
(* user-written step fails with an error of its own on the inputs in fails. *)

FailingOn(fails, e) == [v \in Vals |-> IF v \in fails THEN Err(e) ELSE Ok(v)]

\* the chunk size of the pipeline's BatchStep
NestBatch == 2

\* what is done with one item
ItemStep(fa, fb, fc) ==
    ChainStep_new(
        MapStep_new(
            ChainTupleStep_new(TapStep_new(UserStep("A", fa, "none"), "seen"),
                               UserStep("B", fb, "none")),
            [p \in Vals \X Vals |-> 1 - p[1] * p[2]]),
        BranchStep_new([v \in Vals |-> v > 0],
                       InstrumentedStep_new(UserStep("C", fc, "none"), "C"),
                       ConditionalCheckpointStep_new("gate", [v \in Vals |-> v = 0])))

InitNest ==
    /\ InitContext(ExecutionContext_new, 1)
    /\ \E fails \in [{"A", "B", "C"} -> SUBSET Vals] :
          built = {Workflow_new(
                      BatchStep_new(
                          SingleItemAdapter_new(
                              ItemStep(FailingOn(fails["A"], Execution("e1")),
                                       FailingOn(fails["B"], Message("e2")),
                                       FailingOn(fails["C"], Validation("e3")))),
                          NestBatch))}

NextNest ==
    \/ \E t \in Callers :
          \/ Call_Workflow_run(t)
          \/ Call_Workflow_run_with_ctx(t)
    \/ \E f \in FiberIds :
          \/ Step_run(f)
          \/ ChainStep_run_first(f)
          \/ ChainStep_run_second(f)
          \/ ChainStep_run_return(f)
          \/ ChainTupleStep_run_first(f)
          \/ ChainTupleStep_run_second(f)
          \/ ChainTupleStep_run_return(f)
          \/ MapStep_run_start(f)
          \/ MapStep_run_return(f)
          \/ TapStep_run_start(f)
          \/ TapStep_run_return(f)
          \/ BranchStep_run_route(f)
          \/ BranchStep_run_return(f)
          \/ ConditionalCheckpointStep_run(f)
          \/ InstrumentedStep_run_start(f)
          \/ InstrumentedStep_run_record(f)
          \/ InstrumentedStep_run_emit(f)
          \/ SingleItemAdapter_run_start(f)
          \/ SingleItemAdapter_run_push(f)
          \/ BatchStep_run_start(f)
          \/ BatchStep_run_extend(f)
          \/ Workflow_run_start(f)
          \/ Workflow_run_finish(f)
          \/ Workflow_run_with_ctx_start(f)
          \/ Workflow_run_with_ctx_finish(f)

SpecNest == InitNest /\ [][NextNest]_vars

----------------------------------------------------------------------------
(* SpecInstr: a caller makes a sequence of calls on one context: of         *)
(* instrumented steps, and of workflows through run and run_with_ctx; the  *)
(* pipelines end in checkpoints, fail or succeed depending on the input    *)

InitInstr ==
    /\ InitContext(ExecutionContext_new, MaxCalls)
    /\ \E fa \in UserFns :
          LET gated == ChainStep_new(
                          UserStep("A", fa, "tokens"),
                          ConditionalCheckpointStep_new("gate", [v \in Vals |-> v > 0]))
          IN  built = {InstrumentedStep_new(gated, "gated"),
                       InstrumentedStep_new(CheckpointStep_new("review"), "review"),
                       Workflow_new(gated),
                       Workflow_new(InstrumentedStep_new(gated, "gated"))}

NextInstr ==
    \/ \E t \in Callers :
          \/ Call_Step_run(t)
          \/ Call_Workflow_run(t)
          \/ Call_Workflow_run_with_ctx(t)
    \/ \E f \in FiberIds :
          \/ Step_run(f)
          \/ ChainStep_run_first(f)
          \/ ChainStep_run_second(f)
          \/ ChainStep_run_return(f)
          \/ CheckpointStep_run(f)
          \/ ConditionalCheckpointStep_run(f)
          \/ InstrumentedStep_run_start(f)
          \/ InstrumentedStep_run_record(f)
          \/ InstrumentedStep_run_emit(f)
          \/ Workflow_run_start(f)
          \/ Workflow_run_finish(f)
          \/ Workflow_run_with_ctx_start(f)
          \/ Workflow_run_with_ctx_finish(f)

SpecInstr == InitInstr /\ [][NextInstr]_vars

----------------------------------------------------------------------------
(* Reading the history of a fiber *)

Log(f) == fibers[f].log

\* the index of the return matching the call at index i, 0 while it runs
RetOf(log, i) ==
    LET js == {j \in (i + 1)..Len(log) :
                  log[j].ev = "ret" /\ log[j].depth = log[i].depth}
    IN  IF js = {} THEN 0 ELSE CHOOSE j \in js : \A k \in js : j <= k

\* the calls made, and the returns received, by the invocation log[i]..log[j]
SubEntries(log, i, j) ==
    SelectSeq(SubSeq(log, i + 1, j - 1), LAMBDA e : e.depth = log[i].depth + 1)

\* the completed invocations of steps of the given kind: <<fiber, call, ret>>
Completed(kind) ==
    UNION {{<<f, i, RetOf(Log(f), i)>> :
               i \in {k \in 1..Len(Log(f)) :
                         /\ Log(f)[k].ev = "call"
                         /\ Log(f)[k].step.kind = kind
                         /\ RetOf(Log(f), k) # 0}} :
           f \in DOMAIN fibers}

\* caller t has made a call and it has returned
Done(t) == callers[t].calls > 0 /\ fibers[<<t>>].stack = <<>>

\* the call and the return of the last call made by caller t
LastCall(t) ==
    LET log == Log(<<t>>)
        is == {i \in 1..Len(log) : log[i].ev = "call" /\ log[i].depth = 1}
    IN  log[CHOOSE i \in is : \A k \in is : k <= i]

LastRet(t) == Log(<<t>>)[Len(Log(<<t>>))]

----------------------------------------------------------------------------
(* Properties of SpecChain *)

\* C1: when the first step of a chain fails, the second step is never
\* invoked, the context is as the first step left it, and the chain returns
\* the first step's error itself
ChainFirstErrorPropagates ==
    \A inv \in Completed("Chain") :
        LET log == Log(inv[1])
            call == log[inv[2]]
            ret == log[inv[3]]
            subs == SubEntries(log, inv[2], inv[3])
        IN  IsErr(call.step.first.f[call.input]) =>
               /\ Len(subs) = 2
               /\ subs[1].ev = "call" /\ subs[1].step = call.step.first
               /\ subs[2].ev = "ret" /\ subs[2].step = call.step.first
               /\ \A k \in 1..Len(subs) : subs[k].step # call.step.second
               /\ ret.result = call.step.first.f[call.input]
               /\ ret.result = subs[2].result
               /\ \A t \in Callers :
                     Done(t) /\ inv[1] = <<t>> /\ LastCall(t) = call =>
                        ctxs[call.ctx] = callers[t].before

\* a chain has returned after its first step failed on an input on which
\* the second step would have succeeded
ChainFirstErrorWitness ==
    \E inv \in Completed("Chain") :
        LET call == Log(inv[1])[inv[2]] IN
           /\ IsErr(call.step.first.f[call.input])
           /\ \E v \in Vals : IsOk(call.step.second.f[v])
           /\ IsErr(Log(inv[1])[inv[3]].result)

\* C2: when the first step of a chain succeeds with m, the second step is
\* invoked exactly once, with m, after the first has returned, and the chain
\* returns what the second step returned: second(first(x))
ChainFeedsSecond ==
    \A inv \in Completed("Chain") :
        LET log == Log(inv[1])
            call == log[inv[2]]
            ret == log[inv[3]]
            subs == SubEntries(log, inv[2], inv[3])
            m == call.step.first.f[call.input]
        IN  IsOk(m) =>
               /\ Len(subs) = 4
               /\ subs[1].ev = "call" /\ subs[1].step = call.step.first
               /\ subs[1].input = call.input
               /\ subs[2].ev = "ret" /\ subs[2].step = call.step.first
               /\ subs[2].result = m
               /\ subs[3].ev = "call" /\ subs[3].step = call.step.second
               /\ subs[3].input = m.val
               /\ subs[4].ev = "ret" /\ subs[4].step = call.step.second
               /\ ret.result = subs[4].result
               /\ ret.result = call.step.second.f[m.val]

\* a chain has returned Ok after its first step mapped the input to a
\* different value
ChainFeedsSecondWitness ==
    \E inv \in Completed("Chain") :
        LET call == Log(inv[1])[inv[2]]
            m == call.step.first.f[call.input]
        IN  /\ IsOk(m)
            /\ m.val # call.input
            /\ IsOk(Log(inv[1])[inv[3]].result)

----------------------------------------------------------------------------
(* Properties of SpecTuple *)

\* C11: a tuple fan-out calls its first step with the input and, only after
\* that call has returned Ok, its second step with the same input; when the
\* first step fails the second is never called and the first error is
\* returned; when both succeed the result is the pair of their outputs
TupleRunsInOrder ==
    \A inv \in Completed("ChainTuple") :
        LET log == Log(inv[1])
            call == log[inv[2]]
            ret == log[inv[3]]
            subs == SubEntries(log, inv[2], inv[3])
            a == call.step.first.f[call.input]
            b == call.step.second.f[call.input]
        IN  /\ Len(subs) >= 2
            /\ subs[1].ev = "call" /\ subs[1].step = call.step.first
            /\ subs[1].input = call.input /\ subs[1].ctx = call.ctx
            /\ subs[2].ev = "ret" /\ subs[2].step = call.step.first
            /\ subs[2].result = a
            /\ IsErr(a) =>
                  /\ Len(subs) = 2
                  /\ ret.result = a
            /\ IsOk(a) =>
                  /\ Len(subs) = 4
                  /\ subs[3].ev = "call" /\ subs[3].step = call.step.second
                  /\ subs[3].input = call.input /\ subs[3].ctx = call.ctx
                  /\ subs[4].ev = "ret" /\ subs[4].step = call.step.second
                  /\ subs[4].result = b
                  /\ IsErr(b) => ret.result = b
                  /\ IsOk(b) => ret.result = Ok(<<a.val, b.val>>)

\* a tuple fan-out has returned a pair of two different outputs, the first
\* of them different from the input; and one has failed in its first step
TupleRunsInOrderWitness ==
    /\ \E inv \in Completed("ChainTuple") :
          LET call == Log(inv[1])[inv[2]]
              a == call.step.first.f[call.input]
              b == call.step.second.f[call.input]
          IN  /\ IsOk(a) /\ IsOk(b)
              /\ a.val # call.input
              /\ a.val # b.val
              /\ Log(inv[1])[inv[3]].result = Ok(<<a.val, b.val>>)
    /\ \E inv \in Completed("ChainTuple") :
          LET call == Log(inv[1])[inv[2]] IN
             /\ IsErr(call.step.first.f[call.input])
             /\ IsOk(call.step.second.f[call.input])

----------------------------------------------------------------------------
(* Properties of SpecBatch.  For a completed invocation with input x of a   *)
(* BatchStep or a SingleItemAdapter, w is the user-written step that is run *)
(* on the single items.                                                    *)

\* the concatenation of the sequences in seqs
RECURSIVE Concat(_)
Concat(seqs) == IF seqs = <<>> THEN <<>> ELSE Head(seqs) \o Concat(Tail(seqs))

\* the indices of the items of x on which w fails
FailingItems(w, x) == {k \in 1..Len(x) : IsErr(w[x[k]])}

\* the least element of a non-empty set of numbers
Least(S) == CHOOSE k \in S : \A j \in S : k <= j

\* the j-th chunk of size c of x
Chunk(x, c, j) == SubSeq(x, (j - 1) * c + 1, Min(j * c, Len(x)))

\* C12: when the inner step succeeds on every chunk, a BatchStep with chunk
\* size c over n items calls the inner step ceil(n/c) times, one call after
\* the other has returned, on the consecutive chunks of the input: c items
\* each, the last one 1 to c; the output is the chunk outputs in chunk order
BatchChunksInOrder ==
    \A inv \in Completed("Batch") :
        LET log == Log(inv[1])
            call == log[inv[2]]
            ret == log[inv[3]]
            subs == SubEntries(log, inv[2], inv[3])
            x == call.input
            n == Len(x)
            c == call.step.batch_size
            w == call.step.step.step.f
            chunks == (n + c - 1) \div c
        IN  FailingItems(w, x) = {} =>
               /\ Len(subs) = 2 * chunks
               /\ n = 0 => subs = <<>>
               /\ \A j \in 1..chunks :
                     /\ subs[2 * j - 1].ev = "call"
                     /\ subs[2 * j - 1].step = call.step.step
                     /\ subs[2 * j - 1].ctx = call.ctx
                     /\ subs[2 * j - 1].input = Chunk(x, c, j)
                     /\ j < chunks => Len(subs[2 * j - 1].input) = c
                     /\ Len(subs[2 * j - 1].input) \in 1..c
                     /\ subs[2 * j].ev = "ret"
                     /\ IsOk(subs[2 * j].result)
               /\ Concat([j \in 1..chunks |-> subs[2 * j - 1].input]) = x
               /\ ret.result = Ok(Concat([j \in 1..chunks |-> subs[2 * j].result.val]))
               /\ ret.result = Ok([k \in 1..n |-> w[x[k]].val])

\* three items have been run in a chunk of two and a chunk of one, and the
\* first and the last output differ
BatchChunksInOrderWitness ==
    \E inv \in Completed("Batch") :
        LET call == Log(inv[1])[inv[2]]
            ret == Log(inv[1])[inv[3]]
        IN  /\ Len(call.input) = 3
            /\ call.step.batch_size = 2
            /\ IsOk(ret.result)
            /\ ret.result.val[1] # ret.result.val[3]
            /\ ret.result.val # call.input

\* C13: BatchStep::new with chunk size 0 panics and makes no step; with any
\* other chunk size it makes the step; every BatchStep has batch_size >= 1
BatchSizeZeroPanics ==
    /\ \A s \in built : s.kind = "Batch" => s.batch_size >= 1
    /\ \A f \in DOMAIN fibers : \A k \in 1..Len(Log(f)) :
          Log(f)[k].step.kind = "Batch" => Log(f)[k].step.batch_size >= 1
    /\ lastOp.op = "BatchStep::new" =>
          IF lastOp.batch_size = 0
            THEN /\ lastOp.panic = "batch_size must be greater than zero"
                 /\ \A s \in built : s.kind # "Batch"
            ELSE /\ lastOp.panic = ""
                 /\ \E s \in built :
                       s.kind = "Batch" /\ s.batch_size = lastOp.batch_size

\* a construction with chunk size 0 has panicked
BatchSizeZeroPanicsWitness ==
    /\ lastOp.op = "BatchStep::new"
    /\ lastOp.batch_size = 0
    /\ lastOp.panic # ""
    /\ \A s \in built : s.kind # "Batch"

\* C14: when the inner step fails on chunk j of a BatchStep, the chunks up
\* to j have been dispatched and no other, and the call returns the error
\* the inner step returned for chunk j, and so none of the earlier outputs
BatchAbortsOnChunkFailure ==
    \A inv \in Completed("Batch") :
        LET log == Log(inv[1])
            call == log[inv[2]]
            ret == log[inv[3]]
            subs == SubEntries(log, inv[2], inv[3])
            x == call.input
            c == call.step.batch_size
            w == call.step.step.step.f
            first == Least(FailingItems(w, x))
            j == ((first - 1) \div c) + 1
        IN  FailingItems(w, x) # {} =>
               /\ Len(subs) = 2 * j
               /\ \A i \in 1..j :
                     /\ subs[2 * i - 1].ev = "call"
                     /\ subs[2 * i - 1].step = call.step.step
                     /\ subs[2 * i - 1].input = Chunk(x, c, i)
                     /\ subs[2 * i].ev = "ret"
                     /\ i < j => IsOk(subs[2 * i].result)
               /\ IsErr(subs[2 * j].result)
               /\ ret.result = subs[2 * j].result
               /\ ret.result = w[x[first]]

\* the second of three chunks has failed after the first one succeeded, on
\* an input whose third chunk would have succeeded
BatchAbortsOnChunkFailureWitness ==
    \E inv \in Completed("Batch") :
        LET call == Log(inv[1])[inv[2]]
            w == call.step.step.step.f
        IN  /\ Len(call.input) = 3
            /\ call.step.batch_size = 1
            /\ FailingItems(w, call.input) = {2}
            /\ IsErr(Log(inv[1])[inv[3]].result)

\* C15: a SingleItemAdapter calls the inner step on the items in input
\* order, one call after the other has returned, up to the first item that
\* fails; it returns that item's error, or when no item fails the outputs
\* in the order of the items
AdapterRunsItemsInOrder ==
    \A inv \in Completed("SingleItemAdapter") :
        LET log == Log(inv[1])
            call == log[inv[2]]
            ret == log[inv[3]]
            subs == SubEntries(log, inv[2], inv[3])
            x == call.input
            w == call.step.step.f
            failing == FailingItems(w, x)
            m == IF failing = {} THEN Len(x) ELSE Least(failing)
        IN  /\ Len(subs) = 2 * m
            /\ \A k \in 1..m :
                  /\ subs[2 * k - 1].ev = "call"
                  /\ subs[2 * k - 1].step = call.step.step
                  /\ subs[2 * k - 1].input = x[k]
                  /\ subs[2 * k - 1].ctx = call.ctx
                  /\ subs[2 * k].ev = "ret"
                  /\ subs[2 * k].result = w[x[k]]
            /\ failing = {} => ret.result = Ok([k \in 1..Len(x) |-> w[x[k]].val])
            /\ failing # {} => ret.result = w[x[m]]

\* an adapter called by the user has returned the error of the second of
\* three items, the first and the third being one the inner step succeeds on
AdapterRunsItemsInOrderWitness ==
    \E inv \in Completed("SingleItemAdapter") :
        LET call == Log(inv[1])[inv[2]]
            w == call.step.step.f
        IN  /\ call.depth = 1
            /\ Len(call.input) = 3
            /\ FailingItems(w, call.input) = {2}
            /\ Log(inv[1])[inv[3]].result = w[call.input[2]]

----------------------------------------------------------------------------
(* Properties of SpecBranch *)

\* C16: every invocation of a BranchStep asks the predicate once, about its
\* own input, then calls the left step when the answer is true and the right
\* step when it is false, never the other one, and returns that step's
\* result; what earlier invocations did plays no part
BranchRoutesByPredicate ==
    \A inv \in Completed("Branch") :
        LET log == Log(inv[1])
            call == log[inv[2]]
            ret == log[inv[3]]
            subs == SubEntries(log, inv[2], inv[3])
            taken == call.step.predicate[call.input]
            branch == IF taken THEN call.step.left ELSE call.step.right
            other == IF taken THEN call.step.right ELSE call.step.left
        IN  /\ Len(subs) = 3
            /\ subs[1].ev = "predicate"
            /\ subs[1].input = call.input
            /\ subs[1].result = taken
            /\ subs[2].ev = "call" /\ subs[2].step = branch
            /\ subs[2].input = call.input /\ subs[2].ctx = call.ctx
            /\ subs[3].ev = "ret" /\ subs[3].step = branch
            /\ subs[3].result = branch.f[call.input]
            /\ \A k \in 1..Len(subs) : subs[k].ev = "call" => subs[k].step # other
            /\ ret.result = subs[3].result

\* two invocations one after the other have taken different branches, the
\* first one the left, and returned different results
BranchRoutesByPredicateWitness ==
    \E inv1 \in Completed("Branch"), inv2 \in Completed("Branch") :
        LET log == Log(inv1[1])
            call1 == log[inv1[2]]
            call2 == log[inv2[2]]
        IN  /\ inv1[1] = inv2[1]
            /\ inv1[3] < inv2[2]
            /\ call1.step.predicate[call1.input]
            /\ ~call2.step.predicate[call2.input]
            /\ log[inv1[3]].result # log[inv2[3]].result
            /\ log[inv2[3]].result = call2.step.right.f[call2.input]

----------------------------------------------------------------------------
(* Properties of SpecCheckpoint *)

\* serde_json's value for an i32
Number(n) == [json |-> "Number", n |-> n]

\* C17: a CheckpointStep calls nothing and returns, for every input, the
\* Checkpoint error with the name it was made with and the input as a JSON
\* number, never Ok; the context is after the call as it was before
CheckpointAlwaysPauses ==
    /\ \A inv \in Completed("Checkpoint") :
          LET log == Log(inv[1])
              call == log[inv[2]]
              ret == log[inv[3]]
          IN  /\ SubEntries(log, inv[2], inv[3]) = <<>>
              /\ IsErr(ret.result)
              /\ ret.result.err.variant = "Checkpoint"
              /\ ret.result.err.step_name = call.step.step_name
              /\ ret.result.err.data = Number(call.input)
    /\ \A t \in Callers :
          Done(t) /\ LastCall(t).step.kind = "Checkpoint" =>
             ctxs[LastCall(t).ctx] = callers[t].before

\* a CheckpointStep has been called twice with different inputs on a context
\* that holds records of an earlier run
CheckpointAlwaysPausesWitness ==
    /\ \E inv1 \in Completed("Checkpoint"), inv2 \in Completed("Checkpoint") :
          /\ inv1[1] = inv2[1]
          /\ Log(inv1[1])[inv1[2]].input # Log(inv2[1])[inv2[2]].input
    /\ \E t \in Callers :
          /\ Done(t)
          /\ callers[t].before = UsedContext
          /\ ctxs[1] = UsedContext

\* C18: a ConditionalCheckpointStep calls nothing and leaves the context as
\* it is; when its predicate is false of the input it returns Ok of the
\* input, when it is true the Checkpoint error with its name and the input
\* as a JSON number, the same result a CheckpointStep of that name returns
\* for that input
ConditionalCheckpointMatches ==
    /\ \A inv \in Completed("ConditionalCheckpoint") :
          LET log == Log(inv[1])
              call == log[inv[2]]
              ret == log[inv[3]]
          IN  /\ SubEntries(log, inv[2], inv[3]) = <<>>
              /\ ~call.step.predicate[call.input] => ret.result = Ok(call.input)
              /\ call.step.predicate[call.input] =>
                    /\ ret.result =
                          Err(Checkpoint(call.step.step_name, Number(call.input)))
                    /\ \A other \in Completed("Checkpoint") :
                          LET c == Log(other[1])[other[2]] IN
                             /\ c.step.step_name = call.step.step_name
                             /\ c.input = call.input
                             => Log(other[1])[other[3]].result = ret.result
    /\ \A t \in Callers :
          Done(t) /\ LastCall(t).step.kind = "ConditionalCheckpoint" =>
             ctxs[LastCall(t).ctx] = callers[t].before

\* a ConditionalCheckpointStep whose predicate is not constant has paused on
\* an input on which a CheckpointStep of the same name has been called
ConditionalCheckpointMatchesWitness ==
    \E inv \in Completed("ConditionalCheckpoint"), other \in Completed("Checkpoint") :
        LET call == Log(inv[1])[inv[2]]
            c == Log(other[1])[other[2]]
        IN  /\ call.step.predicate[call.input]
            /\ \E v \in Vals : ~call.step.predicate[v]
            /\ c.step.step_name = call.step.step_name
            /\ c.input = call.input
            /\ IsErr(Log(inv[1])[inv[3]].result)

----------------------------------------------------------------------------
(* Properties of SpecPar.  Caller t makes one call of the ParallelMapStep;  *)
(* xs are the items, Out(t, k) what the user-written step returns for the  *)
(* k-th item.                                                              *)

Called(t) == callers[t].calls > 0

Items(t) == LastCall(t).input

Out(t, k) == LastCall(t).step.step.inner.f[Items(t)[k]]

Failing(t) == {k \in 1..Len(Items(t)) : IsErr(Out(t, k))}

\* the futures of the call have been made and every one has completed
Joined(t) ==
    /\ Called(t)
    /\ Children(<<t>>, Len(Items(t))) \subseteq DOMAIN fibers
    /\ \A g \in Children(<<t>>, Len(Items(t))) : fibers[g].stack = <<>>

\* the number of entries of seq that equal x
CountOf(seq, x) == Cardinality({i \in 1..Len(seq) : seq[i] = x})

\* the types of the events of a trace log, in order
EventTypes(traces) == [i \in 1..Len(traces) |-> traces[i].event.type]

\* seq after its first n entries
Suffix(seq, n) == SubSeq(seq, n + 1, Len(seq))

\* C3: when every invocation succeeds the result has one entry per item and
\* the k-th entry is the output for the k-th item, whatever the order of
\* completion
ParallelResultsPositional ==
    \A t \in Callers :
        Done(t) /\ Failing(t) = {} =>
           /\ IsOk(LastRet(t).result)
           /\ Len(LastRet(t).result.val) = Len(Items(t))
           /\ \A k \in 1..Len(Items(t)) : LastRet(t).result.val[k] = Out(t, k).val

\* two items with different outputs, the second one completed first
ParallelResultsPositionalWitness ==
    \E t \in Callers :
        /\ Done(t) /\ Failing(t) = {}
        /\ Len(Items(t)) >= 2
        /\ Out(t, 1).val # Out(t, 2).val
        /\ completed[1] = <<t, 2>>

\* C4: when some invocation fails the call returns one error, that of the
\* failing item with the lowest index, whichever failed first
ParallelLowestIndexedError ==
    \A t \in Callers :
        Done(t) /\ Failing(t) # {} =>
           LastRet(t).result =
              Out(t, CHOOSE k \in Failing(t) : \A j \in Failing(t) : k <= j)

\* two items failing with different errors, the second one completed first
ParallelLowestIndexedErrorWitness ==
    \E t \in Callers :
        /\ Done(t)
        /\ {1, 2} \subseteq Failing(t)
        /\ Out(t, 1) # Out(t, 2)
        /\ completed[1] = <<t, 2>>
        /\ LastRet(t).result = Out(t, 1)

\* C5: one invocation per item is launched, the call returns only when all
\* of them have completed, and when it returns an error the context holds
\* what every invocation recorded
ParallelWaitsForAll ==
    \A t \in Callers :
        LET f == <<t>>
            n == Len(Items(t))
            inner == LastCall(t).step.step
            launched == {g \in DOMAIN fibers : Len(g) = 2 /\ g[1] = t}
            before == callers[t].before
            after == ctxs[LastCall(t).ctx]
            said == Suffix(after.metrics.failures, Len(before.metrics.failures))
            traced == Suffix(after.traces, Len(before.traces))
        IN  /\ Called(t) /\ (Done(t) \/ At(f, "ParallelMap", "join_all")) =>
                 /\ launched = Children(f, n)
                 /\ \A k \in 1..n :
                       LET calls == SelectSeq(Log(f \o <<k>>),
                                       LAMBDA e : e.ev = "call" /\ e.depth = 1)
                       IN  /\ Len(calls) = 1
                           /\ calls[1].step = inner
                           /\ calls[1].input = Items(t)[k]
                           /\ calls[1].ctx = LastCall(t).ctx
            /\ Done(t) => Joined(t)
            /\ Done(t) /\ IsErr(LastRet(t).result) =>
                 /\ after.metrics.steps_completed =
                       before.metrics.steps_completed + (n - Cardinality(Failing(t)))
                 /\ Len(said) = Cardinality(Failing(t))
                 /\ \A k \in Failing(t) :
                       CountOf(said, to_string(Out(t, k).err)) =
                          Cardinality({j \in Failing(t) : Out(t, j) = Out(t, k)})
                 /\ Len(traced) = 2 * n
                 /\ CountOf(EventTypes(traced), "StepStart") = n
                 /\ CountOf(EventTypes(traced), "StepEnd") =
                       n - Cardinality(Failing(t))
                 /\ CountOf(EventTypes(traced), "Error") =
                       Cardinality(Failing(t))

\* the call has returned the error of its first item; the second item
\* succeeded and completed after the first
ParallelWaitsForAllWitness ==
    \E t \in Callers :
        /\ Done(t)
        /\ Len(Items(t)) = 2
        /\ Failing(t) = {1}
        /\ completed = <<<<t, 1>>, <<t, 2>>>>
        /\ ctxs[1].metrics.steps_completed = callers[t].before.metrics.steps_completed + 1

\* C6: once the n concurrent invocations have completed, steps_completed
\* plus the number of failures has grown by n and the trace log by 2n
NoLostContextUpdate ==
    \A t \in Callers :
        LET n == Len(Items(t))
            before == callers[t].before
            after == ctxs[LastCall(t).ctx]
        IN  Joined(t) =>
               /\ after.metrics.steps_completed + Len(after.metrics.failures) =
                     before.metrics.steps_completed + Len(before.metrics.failures) + n
               /\ Len(after.traces) = Len(before.traces) + 2 * n

\* two invocations on a used context have completed, the second having
\* started before the first recorded its outcome
NoLostContextUpdateWitness ==
    \E t \in Callers :
        /\ Joined(t)
        /\ Len(Items(t)) = 2
        /\ callers[t].before = UsedContext
        /\ LET traced == Suffix(ctxs[1].traces, Len(callers[t].before.traces)) IN
              /\ Len(traced) = 4
              /\ traced[1].event.type = "StepStart"
              /\ traced[2].event.type = "StepStart"

\* the number of entries of seq that are in the set S
CountIn(seq, S) == Cardinality({i \in 1..Len(seq) : seq[i] \in S})

\* C20: of the invocations of the InstrumentedStep made by one parallel
\* call, each that has started its wrapped step has put one StepStart with
\* the wrapper's name in the trace log, each that has returned has put one
\* more event there, StepEnd after Ok and Error after Err, and no other
\* event is there; at every point of the log there are at least as many
\* StepStart events before it as StepEnd and Error events
StartThenTerminalEvent ==
    \A t \in Callers :
        LET wrapper == LastCall(t).step.step
            invs == {g \in DOMAIN fibers : Len(g) = 2 /\ g[1] = t}
            started == {g \in invs : ~At(g, "Instrumented", "start")}
            returned == {g \in invs : fibers[g].stack = <<>>}
            traced == Suffix(ctxs[LastCall(t).ctx].traces, Len(callers[t].before.traces))
            types == EventTypes(traced)
        IN  Called(t) =>
               /\ CountOf(types, "StepStart") = Cardinality(started)
               /\ CountOf(types, "StepEnd") =
                     Cardinality({g \in returned : IsOk(fibers[g].ret)})
               /\ CountOf(types, "Error") =
                     Cardinality({g \in returned : IsErr(fibers[g].ret)})
               /\ Len(traced) = Cardinality(started) + Cardinality(returned)
               /\ \A i \in 1..Len(traced) :
                     /\ traced[i].event.step_name = wrapper.name
                     /\ traced[i].event.type = "StepStart" =>
                           traced[i].event.input_type = "i32"
                     /\ CountOf(SubSeq(types, 1, i), "StepStart") >=
                           CountIn(SubSeq(types, 1, i), {"StepEnd", "Error"})
               /\ \A g \in returned :
                     /\ IsOk(fibers[g].ret) => IsOk(wrapper.inner.f[Items(t)[g[2]]])
                     /\ IsErr(fibers[g].ret) =>
                           \E i \in 1..Len(traced) :
                               traced[i].event =
                                  ErrorEvent(wrapper.name, to_string(fibers[g].ret.err))

\* two invocations have interleaved: both started before the first one,
\* which failed, returned, and the second one succeeded
StartThenTerminalEventWitness ==
    \E t \in Callers :
        /\ Joined(t)
        /\ Len(Items(t)) = 2
        /\ EventTypes(Suffix(ctxs[1].traces, Len(callers[t].before.traces))) =
              <<"StepStart", "StepStart", "Error", "StepEnd">>
        /\ completed = <<<<t, 1>>, <<t, 2>>>>

----------------------------------------------------------------------------
(* Properties of SpecCtx *)

\* C7: in every context total_token_count is prompt_token_count plus
\* completion_token_count, whatever token-recording calls have been made
TotalIsPromptPlusCompletion ==
    \A c \in DOMAIN ctxs :
        ctxs[c].metrics.total_token_count =
           ctxs[c].metrics.prompt_token_count + ctxs[c].metrics.completion_token_count

\* s is t or t with entries appended
IsPrefixOf(s, t) == Len(s) <= Len(t) /\ SubSeq(t, 1, Len(s)) = s

\* C9: no ExecutionContext method decreases a token counter or
\* steps_completed, failures only grows at its end, and clear_traces empties
\* the trace log of its context and changes no metrics
MetricsNeverDecrease ==
    [][/\ \A c \in DOMAIN ctxs :
             LET m == ctxs[c].metrics
                 n == ctxs'[c].metrics
             IN  /\ n.prompt_token_count >= m.prompt_token_count
                 /\ n.completion_token_count >= m.completion_token_count
                 /\ n.total_token_count >= m.total_token_count
                 /\ n.steps_completed >= m.steps_completed
                 /\ IsPrefixOf(m.failures, n.failures)
       /\ lastOp'.seq # lastOp.seq /\ lastOp'.op = "clear_traces" =>
             /\ ctxs'[lastOp'.ctx].traces = <<>>
             /\ \A c \in DOMAIN ctxs :
                   /\ ctxs'[c].metrics = ctxs[c].metrics
                   /\ c # lastOp'.ctx => ctxs'[c] = ctxs[c]
      ]_vars

\* clear_traces has just emptied a trace log that a caller saw non-empty, in
\* a context whose metrics hold a failure
MetricsNeverDecreaseWitness ==
    /\ lastOp.op = "clear_traces"
    /\ ctxs[lastOp.ctx].traces = <<>>
    /\ ctxs[lastOp.ctx].metrics.failures # <<>>
    /\ \E t \in Callers : callers[t].trace_snapshot # <<>>

----------------------------------------------------------------------------
(* Properties of SpecInstr *)

Quiescent == \A f \in DOMAIN fibers : fibers[f].stack = <<>>

\* the completed InstrumentedStep invocations on context c
InstrumentedOn(c) ==
    {inv \in Completed("Instrumented") : Log(inv[1])[inv[2]].ctx = c}

\* the completed Workflow::run calls that created context c
RunsOn(c) ==
    {inv \in Completed("Workflow") :
        /\ Log(inv[1])[inv[2]].entry = "run"
        /\ SubEntries(Log(inv[1]), inv[2], inv[3])[1].ctx = c}

Succeeded(invs) == {inv \in invs : IsOk(Log(inv[1])[inv[3]].result)}

\* C8: when no call is in progress, steps_completed of a context is the
\* number of successful InstrumentedStep invocations on it plus the number of
\* successful Workflow::run calls that made it, and failures has one entry
\* per failed InstrumentedStep invocation on it
CountersMatchCompletions ==
    Quiescent =>
       \A c \in DOMAIN ctxs :
           /\ ctxs[c].metrics.steps_completed =
                 Cardinality(Succeeded(InstrumentedOn(c))) +
                 Cardinality(Succeeded(RunsOn(c)))
           /\ Len(ctxs[c].metrics.failures) =
                 Cardinality(InstrumentedOn(c) \ Succeeded(InstrumentedOn(c)))

\* the caller's context has seen a failed instrumented invocation, and a
\* Workflow::run of an instrumented step has succeeded on a context of its own
CountersMatchCompletionsWitness ==
    /\ Quiescent
    /\ Len(ctxs[1].metrics.failures) = 1
    /\ \E c \in DOMAIN ctxs :
          /\ c # 1
          /\ Succeeded(RunsOn(c)) # {}
          /\ Succeeded(InstrumentedOn(c)) # {}
          /\ ctxs[c].metrics.steps_completed = 2

\* C19: an InstrumentedStep calls the wrapped step once, with its own input
\* and context, and returns what that call returned, value or error
InstrumentedIsTransparent ==
    \A inv \in Completed("Instrumented") :
        LET log == Log(inv[1])
            call == log[inv[2]]
            ret == log[inv[3]]
            subs == SubEntries(log, inv[2], inv[3])
        IN  /\ Len(subs) = 2
            /\ subs[1].ev = "call" /\ subs[1].step = call.step.inner
            /\ subs[1].input = call.input /\ subs[1].ctx = call.ctx
            /\ subs[2].ev = "ret" /\ subs[2].step = call.step.inner
            /\ ret.result = subs[2].result

\* one instrumented invocation has returned a value different from its
\* input, and one the Execution error of a user-written step
InstrumentedIsTransparentWitness ==
    /\ \E inv \in Completed("Instrumented") :
          LET ret == Log(inv[1])[inv[3]] IN
             /\ IsOk(ret.result)
             /\ ret.result.val # ret.input
    /\ \E inv \in Completed("Instrumented") :
          LET ret == Log(inv[1])[inv[3]] IN
             /\ IsErr(ret.result)
             /\ ret.result.err.variant = "Execution"

\* the user-written steps at the leaves of a step, in the order they are run
RECURSIVE Leaves(_)
Leaves(s) ==
    CASE s.kind = "Step" -> <<s>>
      [] s.kind = "Chain" -> Leaves(s.first) \o Leaves(s.second)
      [] s.kind = "Instrumented" -> Leaves(s.inner)
      [] s.kind = "Workflow" -> Leaves(s.step)
      [] OTHER -> <<>>

\* the metrics m after a user-written step with the given effect has run
AfterEffect(m, effect) ==
    IF effect = "tokens"
      THEN [m EXCEPT !.prompt_token_count = @ + 1,
                     !.completion_token_count = @ + 1,
                     !.total_token_count = @ + 2]
      ELSE m

\* C21: an instrumented invocation leaves in the metrics, beside what the
\* wrapped step recorded itself, one change: steps_completed one higher
\* after Ok, or the error's text appended to failures after Err
InstrumentedRecordsOnce ==
    \A t \in Callers :
        Done(t) /\ LastCall(t).step.kind = "Instrumented" =>
           LET call == LastCall(t)
               result == LastRet(t).result
               before == callers[t].before.metrics
               after == ctxs[call.ctx].metrics
               inner == IF Leaves(call.step) = <<>>
                          THEN before
                          ELSE AfterEffect(before, Leaves(call.step)[1].effect)
           IN  /\ IsOk(result) =>
                     after = [inner EXCEPT !.steps_completed = @ + 1]
               /\ IsErr(result) =>
                     after = [inner EXCEPT !.failures = Append(@, to_string(result.err))]

\* on a context with a failure recorded, an instrumented invocation has
\* failed with another error
InstrumentedRecordsOnceWitness ==
    \E t \in Callers :
        /\ Done(t) /\ LastCall(t).step.kind = "Instrumented"
        /\ IsErr(LastRet(t).result)
        /\ callers[t].before.metrics.failures # <<>>
        /\ callers[t].before.metrics.failures[1] # to_string(LastRet(t).result.err)
        /\ Len(ctxs[1].metrics.failures) = 2

\* C10: a checkpoint step leaves every context as it is, and steps_completed
\* grows only by one, in the step in which an InstrumentedStep or a
\* Workflow::run sees its wrapped step return Ok
StepsCompletedOnlyOnSuccess ==
    [][/\ \A f \in DOMAIN fibers :
             /\ At(f, "Checkpoint", "start") \/ At(f, "ConditionalCheckpoint", "start")
             /\ fibers'[f] # fibers[f]
             => ctxs' = ctxs
       /\ \A c \in DOMAIN ctxs :
             ctxs'[c].metrics.steps_completed # ctxs[c].metrics.steps_completed =>
                /\ ctxs'[c].metrics.steps_completed = ctxs[c].metrics.steps_completed + 1
                /\ \E f \in DOMAIN fibers :
                      /\ fibers'[f] # fibers[f]
                      /\ Returned(f)
                      /\ IsOk(fibers[f].ret)
                      /\ \/ At(f, "Instrumented", "inner") /\ Top(f).ctx = c
                         \/ At(f, "Workflow", "run_step") /\ Top(f).loc.ctx = c
       /\ \A c \in DOMAIN ctxs' \ DOMAIN ctxs : ctxs'[c].metrics.steps_completed = 0
      ]_vars

\* an instrumented checkpoint has been recorded as a failure and a
\* Workflow::run has ended in a checkpoint, and no step has been counted
StepsCompletedOnlyOnSuccessWitness ==
    /\ Quiescent
    /\ \E inv \in Completed("Workflow") :
          LET call == Log(inv[1])[inv[2]]
              ret == Log(inv[1])[inv[3]]
          IN  /\ call.entry = "run"
              /\ IsErr(ret.result)
              /\ ret.result.err.variant = "Checkpoint"
    /\ \E inv \in Completed("Instrumented") :
          LET ret == Log(inv[1])[inv[3]] IN
             /\ IsErr(ret.result)
             /\ ret.result.err.variant = "Checkpoint"
    /\ \A c \in DOMAIN ctxs : ctxs[c].metrics.steps_completed = 0
    /\ ctxs[1].metrics.failures # <<>>

----------------------------------------------------------------------------
(* Properties of SpecAdapter and SpecAdapterPar *)

\* the greatest element of a non-empty set of numbers
Greatest(S) == CHOOSE k \in S : \A j \in S : k >= j

\* the state a StepAdapter driven through this log holds before entry k:
\* the one returned by the last successful inner call since the last reset,
\* the default state if there is none
ExpectedState(log, k) ==
    LET marks == {i \in 1..(k - 1) :
                     \/ log[i].ev = "reset"
                     \/ /\ log[i].ev = "ret"
                        /\ log[i].step.kind = "StateStep"
                        /\ IsOk(log[i].result)}
    IN  IF marks = {} \/ log[Greatest(marks)].ev = "reset"
          THEN State_default
          ELSE log[Greatest(marks)].result.val[2]

\* C22: with one caller at a time, every call of a StepAdapter runs the
\* inner step once, with its input and with the state the last successful
\* call since the last reset returned, the default state if there is none,
\* and returns the inner step's output
AdapterThreadsState ==
    \A inv \in Completed("StepAdapter") :
        LET log == Log(inv[1])
            call == log[inv[2]]
            ret == log[inv[3]]
            subs == SubEntries(log, inv[2], inv[3])
        IN  /\ Len(subs) = 2
            /\ subs[1].ev = "call" /\ subs[1].step = call.step.step
            /\ subs[1].input.input = call.input
            /\ subs[1].input.state = ExpectedState(log, inv[2])
            /\ IsOk(subs[2].result) => ret.result = Ok(subs[2].result.val[1])

\* a counter step has been run three times, with counters 0, 1 and 2, and
\* once more after a reset, with counter 0
AdapterThreadsStateWitness ==
    \E t \in Callers :
        LET log == Log(<<t>>)
            label(n, x) == Ok([count |-> n, x |-> x])
        IN  /\ fibers[<<t>>].stack = <<>>
            /\ Len(log) = 17
            /\ \A k \in {1, 4, 8, 12, 17} : log[k].ev # "reset"
            /\ log[1].step.step.f = CounterFn({})
            /\ log[4].result = label(0, log[1].input)
            /\ log[8].result = label(1, log[5].input)
            /\ log[12].result = label(2, log[9].input)
            /\ log[13].ev = "reset"
            /\ log[17].result = label(0, log[14].input)

\* C23: when the inner step fails the StepAdapter returns its error, and
\* the state it holds between calls is the one returned by the last
\* successful inner call since the last reset: a failed call leaves it as it
\* was
AdapterKeepsStateOnError ==
    /\ \A inv \in Completed("StepAdapter") :
          LET log == Log(inv[1])
              subs == SubEntries(log, inv[2], inv[3])
          IN  IsErr(subs[2].result) => log[inv[3]].result = subs[2].result
    /\ \A t \in Callers :
          fibers[<<t>>].stack = <<>> =>
             \A s \in built :
                 states[s.state] = ExpectedState(Log(<<t>>), Len(Log(<<t>>)) + 1)

\* a call has failed after a successful call, and the adapter holds the
\* state the successful call returned, which is not the default state
AdapterKeepsStateOnErrorWitness ==
    \E t \in Callers :
        LET log == Log(<<t>>) IN
           /\ fibers[<<t>>].stack = <<>>
           /\ Len(log) = 8
           /\ \A k \in {3, 4, 7, 8} : log[k].ev = "ret"
           /\ IsOk(log[4].result)
           /\ IsErr(log[8].result)
           /\ log[8].result = log[7].result
           /\ states[1] = log[3].result.val[2]
           /\ states[1] # State_default

\* the successful calls of the adapter made by the parallel call of caller
\* t, in the order they completed
Writers(t) ==
    SelectSeq(completed, LAMBDA g : g[1] = t /\ IsOk(fibers[g].ret))

\* the state the inner step returned to the adapter call of fiber g
NewState(g) == Log(g)[3].result.val[2]

\* C24: calls of one StepAdapter in progress at the same time each write
\* back the state their own inner call returned, whatever the cell holds by
\* then: when all have completed the cell holds the state of the call that
\* completed last, and the updates of the others are lost
AdapterLastWriterWins ==
    \A t \in Callers :
        Joined(t) =>
           LET writers == Writers(t) IN
              states[1] = IF writers = <<>>
                            THEN State_default
                            ELSE NewState(writers[Len(writers)])

\* two calls of a counter adapter have both read counter 0 before either
\* wrote, both have succeeded, and the counter is 1
AdapterLastWriterWinsWitness ==
    \E t \in Callers :
        /\ Joined(t)
        /\ Len(Items(t)) = 2
        /\ \A g \in Children(<<t>>, 2) :
              /\ IsOk(fibers[g].ret)
              /\ Log(g)[2].input.state = State_default
              /\ NewState(g) = 1
        /\ states[1] = 1

----------------------------------------------------------------------------
(* Properties of SpecInstr: Workflow::run *)

\* the completed invocations of Workflow::run
Runs == {inv \in Completed("Workflow") : Log(inv[1])[inv[2]].entry = "run"}

\* the context a completed invocation of Workflow::run gave to its step
ContextOf(inv) == Log(inv[1])[inv[2] + 1].ctx

\* the metrics Workflow::run returns for workflow w when its step succeeds
\* on a context that was empty: what the user-written step recorded, one
\* step for the instrumentation if there is any, one step for the run
MetricsOfRun(w) ==
    LET user == AfterEffect(WorkflowMetrics_default, Leaves(w)[1].effect)
    IN  [user EXCEPT !.steps_completed =
                        IF w.step.kind = "Instrumented" THEN 2 ELSE 1]

\* C25: every Workflow::run invokes the wrapped step once, on a context of
\* its own that no caller and no other run uses; on success it returns the
\* step's output with the metrics of that context, which count the run's own
\* step and nothing of any earlier call (steps_completed is 1 when the step
\* records no step itself); a failure is returned as it is
WorkflowRunIsFresh ==
    \A inv \in Runs :
        LET log == Log(inv[1])
            call == log[inv[2]]
            ret == log[inv[3]]
            subs == SubEntries(log, inv[2], inv[3])
            inner == subs[Len(subs)].result
        IN  /\ subs[1].ev = "call" /\ subs[1].step = call.step.step
            /\ subs[1].input = call.input
            /\ Cardinality({i \in 1..Len(subs) :
                               /\ subs[i].ev = "call"
                               /\ subs[i].depth = call.depth + 1}) = 1
            /\ ContextOf(inv) \in DOMAIN ctxs
            /\ \A t \in Callers : \A h \in Handles(t) :
                  callers[t].handles[h] # ContextOf(inv)
            /\ \A other \in Runs : other # inv => ContextOf(other) # ContextOf(inv)
            /\ IsErr(inner) => ret.result = inner
            /\ IsOk(inner) =>
                  /\ ret.result = Ok([output |-> inner.val,
                                      metrics |-> MetricsOfRun(call.step)])
                  /\ ret.result.val.metrics = snapshot(ctxs[ContextOf(inv)])

\* a caller has run the uninstrumented workflow twice with success, and
\* both runs returned steps_completed 1
WorkflowRunIsFreshWitness ==
    \E t \in Callers :
        LET log == Log(<<t>>)
            mine == {inv \in Runs : inv[1] = <<t>>}
        IN  /\ Cardinality(mine) = 2
            /\ \A inv \in mine :
                  /\ log[inv[2]].step.step.kind = "Chain"
                  /\ IsOk(log[inv[3]].result)
                  /\ log[inv[3]].result.val.metrics.steps_completed = 1

----------------------------------------------------------------------------
(* Properties of SpecMapTap *)

\* the calls made by the invocation whose inner entries are subs and whose
\* own depth is d: the positions in subs of its calls of sub-steps, of the
\* returns of those, and of the calls of its closure ev
CallsIn(subs, d) ==
    {i \in 1..Len(subs) : subs[i].ev = "call" /\ subs[i].depth = d + 1}

ReturnsIn(subs, d) ==
    {i \in 1..Len(subs) : subs[i].ev = "ret" /\ subs[i].depth = d + 1}

ClosuresIn(subs, d, ev) ==
    {i \in 1..Len(subs) : subs[i].ev = ev /\ subs[i].depth = d + 1}

\* C27: a MapStep runs the wrapped step once; when that succeeds it calls
\* the transform once, on the output, and returns what the transform gave;
\* when it fails the transform is not called and the error is returned as
\* it is
MapTransformsSuccessOnly ==
    \A inv \in Completed("Map") :
        LET log == Log(inv[1])
            call == log[inv[2]]
            ret == log[inv[3]]
            subs == SubEntries(log, inv[2], inv[3])
            calls == CallsIn(subs, call.depth)
            returns == ReturnsIn(subs, call.depth)
            transforms == ClosuresIn(subs, call.depth, "transform")
        IN  /\ calls = {1} /\ Cardinality(returns) = 1
            /\ subs[1].step = call.step.step
            /\ subs[1].input = call.input /\ subs[1].ctx = call.ctx
            /\ LET inner == subs[Greatest(returns)].result IN
                  /\ IsErr(inner) => transforms = {} /\ ret.result = inner
                  /\ IsOk(inner) =>
                        /\ transforms = {Len(subs)}
                        /\ Greatest(returns) = Len(subs) - 1
                        /\ subs[Len(subs)].input = inner.val
                        /\ subs[Len(subs)].result = call.step.f[inner.val]
                        /\ ret.result = Ok(call.step.f[inner.val])

\* a mapped step has returned a value other than the output of the wrapped
\* step, and has failed on another call
MapTransformsSuccessOnlyWitness ==
    \E ok \in Completed("Map"), failed \in Completed("Map") :
        LET log == Log(ok[1]) IN
           /\ failed[1] = ok[1]
           /\ IsOk(log[ok[3]].result)
           /\ log[ok[3] - 2].ev = "ret"
           /\ log[ok[3] - 2].result # log[ok[3]].result
           /\ log[ok[3] - 1].ev = "transform"
           /\ IsErr(log[failed[3]].result)
           /\ log[failed[3] - 1].ev = "ret"

\* C28: a TapStep runs the wrapped step once; when that succeeds it calls
\* the observer once, on the output, after the wrapped step has returned and
\* before it returns itself, and returns the output as it is; when it fails
\* the observer is not called and the error is returned as it is
TapObservesSuccessOnly ==
    \A inv \in Completed("Tap") :
        LET log == Log(inv[1])
            call == log[inv[2]]
            ret == log[inv[3]]
            subs == SubEntries(log, inv[2], inv[3])
            calls == CallsIn(subs, call.depth)
            returns == ReturnsIn(subs, call.depth)
            observed == ClosuresIn(subs, call.depth, "observe")
        IN  /\ calls = {1} /\ Cardinality(returns) = 1
            /\ subs[1].step = call.step.step
            /\ subs[1].input = call.input /\ subs[1].ctx = call.ctx
            /\ LET inner == subs[Greatest(returns)].result IN
                  /\ ret.result = inner
                  /\ IsErr(inner) => observed = {}
                  /\ IsOk(inner) =>
                        /\ observed = {Len(subs)}
                        /\ Greatest(returns) = Len(subs) - 1
                        /\ subs[Len(subs)].input = inner.val

\* a tapped step has succeeded, its observer having seen the output, and
\* has failed on another call
TapObservesSuccessOnlyWitness ==
    \E ok \in Completed("Tap"), failed \in Completed("Tap") :
        LET log == Log(ok[1]) IN
           /\ failed[1] = ok[1]
           /\ IsOk(log[ok[3]].result)
           /\ log[ok[3] - 1].ev = "observe"
           /\ log[ok[3] - 1].input = log[ok[3]].result.val
           /\ IsErr(log[failed[3]].result)
           /\ log[failed[3] - 1].ev = "ret"

----------------------------------------------------------------------------
(* Properties of SpecNest *)

\* the steps that fail of themselves, and the combinators, which fail only
\* when a sub-step does
Failers == {"Step", "Checkpoint", "ConditionalCheckpoint"}

Combinators == {"Chain", "ChainTuple", "Map", "Tap", "Branch",
                "SingleItemAdapter", "Batch", "Instrumented", "Workflow"}

\* the number of calls of sub-steps a combinator makes for an input when
\* none of them fails
Arity(s, input) ==
    CASE s.kind \in {"Chain", "ChainTuple"} -> 2
      [] s.kind = "SingleItemAdapter" -> Len(input)
      [] s.kind = "Batch" -> (Len(input) + s.batch_size - 1) \div s.batch_size
      [] OTHER -> 1

\* the returns with an error in a log
Failures(log) == {i \in 1..Len(log) : log[i].ev = "ret" /\ IsErr(log[i].result)}

\* C26: in a pipeline nested from the sequential combinators the first
\* failure in execution order is that of a step failing of itself, nothing is
\* called after it, and every enclosing combinator returns that very error;
\* a combinator calls its sub-steps no more often than it has inputs for
\* them, and exactly that often when it succeeds
NestedFirstErrorPropagates ==
    /\ \A t \in Callers :
          LET log == Log(<<t>>) IN
             Failures(log) # {} =>
                LET first == Least(Failures(log)) IN
                   /\ log[first].step.kind \in Failers
                   /\ \A i \in (first + 1)..Len(log) :
                         /\ log[i].ev = "ret"
                         /\ log[i].depth < log[i - 1].depth
                         /\ log[i].result = log[first].result
    /\ \A kind \in Combinators : \A inv \in Completed(kind) :
          LET log == Log(inv[1])
              call == log[inv[2]]
              made == Cardinality(CallsIn(SubEntries(log, inv[2], inv[3]), call.depth))
          IN  /\ made <= Arity(call.step, call.input)
              /\ IsOk(log[inv[3]].result) => made = Arity(call.step, call.input)

\* a batch of three items has failed at the checkpoint of the third item,
\* in the second chunk, the first chunk having succeeded, and the run has
\* returned the checkpoint's error
NestedFirstErrorPropagatesWitness ==
    \E t \in Callers :
        LET log == Log(<<t>>) IN
           /\ Done(t)
           /\ Len(log[1].input) = 3
           /\ \E inv \in Completed("SingleItemAdapter") : IsOk(log[inv[3]].result)
           /\ Failures(log) # {}
           /\ log[Least(Failures(log))].step.kind = "ConditionalCheckpoint"
           /\ log[Least(Failures(log))].depth = 6
           /\ log[Len(log)].depth = 1
           /\ log[Len(log)].result = Err(Checkpoint("gate", to_value("i32", 0)))

----------------------------------------------------------------------------
(* Properties of SpecCtx: the trace log *)

\* what the last call did to trace log c: nothing, one entry appended by
\* emit or emit_artifact on c, or the log emptied by clear_traces on c
TraceStep(c) ==
    LET old == IF c \in DOMAIN ctxs THEN ctxs[c].traces ELSE <<>>
        new == ctxs'[c].traces
    IN  \/ new = old
        \/ /\ lastOp'.op \in {"emit", "emit_artifact"} /\ lastOp'.ctx = c
           /\ Len(new) = Len(old) + 1
           /\ SubSeq(new, 1, Len(old)) = old
        \/ /\ lastOp'.op = "clear_traces" /\ lastOp'.ctx = c
           /\ new = <<>>

\* a trace_snapshot a caller holds, of a log not cleared since, is a prefix
\* of the log, and so of every trace_snapshot to come
SnapshotIsPrefix ==
    \A t \in Callers :
        callers[t].trace_snapshot_of # 0 =>
           IsPrefix(callers[t].trace_snapshot,
                    trace_snapshot(ctxs[callers[t].trace_snapshot_of]))

\* C29: every call leaves each trace log as it was, or, being emit or
\* emit_artifact, with one entry more at its end, or, being clear_traces,
\* empty; an emit appends exactly one entry; and a trace_snapshot taken
\* earlier is a prefix of the log, and of a trace_snapshot taken later, when
\* the log was not cleared in between
TraceLogAppendOnly ==
    [][/\ \A c \in DOMAIN ctxs' : TraceStep(c)
       /\ lastOp'.op \in {"emit", "emit_artifact"} =>
             Len(ctxs'[lastOp'.ctx].traces) = Len(ctxs[lastOp'.ctx].traces) + 1
       /\ SnapshotIsPrefix'
       /\ lastOp'.op = "trace_snapshot" =>
             \A t \in Callers :
                 callers[t].trace_snapshot_of = lastOp'.ctx =>
                    IsPrefix(callers[t].trace_snapshot, callers'[t].trace_snapshot)]_vars

\* a caller holds a snapshot with one entry of a log that has got two more
\* entries since, the last one an artifact
TraceLogAppendOnlyWitness ==
    \E t \in Callers :
        LET c == callers[t].trace_snapshot_of IN
           /\ c # 0
           /\ Len(callers[t].trace_snapshot) = 1
           /\ Len(ctxs[c].traces) = 3
           /\ ctxs[c].traces[1] = callers[t].trace_snapshot[1]
           /\ lastOp.op = "emit_artifact"

----------------------------------------------------------------------------
(* Properties of SpecClock *)

\* C30: the clock never going back, the timestamps of every trace log are
\* non-decreasing in the order of the log, also when several threads emit
\* through clones of the context
TimestampsNonDecreasing ==
    \A c \in DOMAIN ctxs :
        \A i, j \in 1..Len(ctxs[c].traces) :
            i < j => ctxs[c].traces[i].timestamp <= ctxs[c].traces[j].timestamp

----------------------------------------------------------------------------
(* Properties of SpecCtx: handles *)

\* the contexts some caller has a handle to
Held == UNION {{callers[t].handles[h] : h \in Handles(t)} : t \in Callers}

\* C31: a clone is one more handle to the context cloned and makes no
\* state of its own, so handles that are clones of each other show the same
\* metrics and trace log after every call; a call through a handle changes
\* no context but the one of that handle; ExecutionContext::new gives a
\* handle to an empty context that no handle had; snapshot and
\* trace_snapshot give what the context of the handle holds
ClonesShareState ==
    [][/\ lastOp'.op = "clone" =>
             /\ ctxs' = ctxs
             /\ \E t \in Callers :
                   /\ callers'[t].handles = Append(callers[t].handles, lastOp'.ctx)
                   /\ lastOp'.ctx \in Held
       /\ lastOp'.op = "new" =>
             /\ lastOp'.ctx \notin Held
             /\ lastOp'.ctx \notin DOMAIN ctxs
             /\ ctxs'[lastOp'.ctx] = ExecutionContext_new
       /\ \A c \in DOMAIN ctxs : c # lastOp'.ctx => ctxs'[c] = ctxs[c]
       /\ lastOp'.op = "snapshot" =>
             \E t \in Callers : callers'[t].snapshot = ctxs[lastOp'.ctx].metrics
       /\ lastOp'.op = "trace_snapshot" =>
             \E t \in Callers : callers'[t].trace_snapshot = ctxs[lastOp'.ctx].traces]_vars

\* a caller holds a context and a clone of it, the only context there is; a
\* step and an event have been recorded, and the snapshot just taken shows
\* the step
ClonesShareStateWitness ==
    \E t \in Callers :
        /\ callers[t].handles = <<1, 1>>
        /\ Len(ctxs) = 1
        /\ ctxs[1].metrics.steps_completed = 1
        /\ Len(ctxs[1].traces) = 1
        /\ lastOp.op = "snapshot"
        /\ lastOp.seq = 4
        /\ callers[t].snapshot.steps_completed = 1

----------------------------------------------------------------------------
(* Properties of SpecInstr: Workflow::run_with_ctx *)

\* C32: after Workflow::run_with_ctx the caller's context holds what it
\* held before and what the wrapped step recorded, nothing more: with a
\* wrapped step that is not instrumented steps_completed, failures and the
\* trace log are as before; with an instrumented one there is the one step
\* or failure and the two events of the instrumentation; the result is that
\* of the wrapped step
RunWithCtxAddsNothing ==
    \A t \in Callers :
        (/\ Done(t)
         /\ LastCall(t).step.kind = "Workflow"
         /\ LastCall(t).entry = "run_with_ctx") =>
           LET call == LastCall(t)
               log == Log(<<t>>)
               result == LastRet(t).result
               before == callers[t].before
               after == ctxs[call.ctx]
               user == AfterEffect(before.metrics, Leaves(call.step)[1].effect)
           IN  /\ result = log[Len(log) - 1].result
               /\ log[Len(log) - 1].step = call.step.step
               /\ log[Len(log) - 1].ctx = call.ctx
               /\ IF call.step.step.kind = "Instrumented"
                     THEN /\ IsOk(result) =>
                               after.metrics = [user EXCEPT !.steps_completed = @ + 1]
                          /\ IsErr(result) =>
                               after.metrics =
                                  [user EXCEPT !.failures = Append(@, to_string(result.err))]
                          /\ Len(after.traces) = Len(before.traces) + 2
                          /\ IsPrefix(before.traces, after.traces)
                     ELSE /\ after.metrics = user
                          /\ after.metrics.steps_completed = before.metrics.steps_completed
                          /\ after.traces = before.traces

\* on a context with a step recorded, run_with_ctx of the workflow whose
\* step is not instrumented has succeeded, and one step is recorded still
RunWithCtxAddsNothingWitness ==
    \E t \in Callers :
        /\ Done(t)
        /\ LastCall(t).step.kind = "Workflow"
        /\ LastCall(t).entry = "run_with_ctx"
        /\ LastCall(t).step.step.kind = "Chain"
        /\ IsOk(LastRet(t).result)
        /\ callers[t].before.metrics.steps_completed = 1
        /\ ctxs[LastCall(t).ctx].metrics.steps_completed = 1
        /\ ctxs[LastCall(t).ctx].metrics.total_token_count = 4

----------------------------------------------------------------------------
(* Properties of SpecAdapterReset *)

\* the places in a log where the state cell was stored to: the resets and
\* the successful returns of the adapter
Stores(log) ==
    {i \in 1..Len(log) :
        \/ log[i].ev = "reset"
        \/ /\ log[i].ev = "ret"
           /\ log[i].step.kind = "StepAdapter"
           /\ IsOk(log[i].result)}

\* the state returned by the last inner call that returned before entry k
ReturnedBefore(log, k) ==
    LET returns == {i \in 1..(k - 1) :
                       log[i].ev = "ret" /\ log[i].step.kind = "StateStep"}
    IN  log[Greatest(returns)].result.val[2]

\* C33: between calls the StepAdapter holds what was stored last, be it by a
\* reset or by the write-back of a successful call, and the next call starts
\* from it: the write-back of a call that succeeds after a reset made while
\* it was in progress replaces the default state the reset stored
ResetCanBeUndone ==
    \A t \in Callers :
        LET log == Log(<<t>>)
            held == IF Stores(log) = {} \/ log[Greatest(Stores(log))].ev = "reset"
                      THEN State_default
                      ELSE ReturnedBefore(log, Greatest(Stores(log)))
        IN  /\ fibers[<<t>>].stack = <<>> => states[1] = held
            /\ \A k \in 1..Len(log) :
                  (log[k].ev = "call" /\ log[k].step.kind = "StateStep") =>
                     LET stores == {i \in Stores(log) : i < k} IN
                        log[k].input.state =
                           IF stores = {} \/ log[Greatest(stores)].ev = "reset"
                             THEN State_default
                             ELSE ReturnedBefore(log, Greatest(stores))

\* a reset was made while a call was in progress, the call has succeeded
\* and stored a state other than the default, and the next call has started
\* from that state
ResetCanBeUndoneWitness ==
    \E t \in Callers :
        LET log == Log(<<t>>) IN
           /\ Len(log) >= 7
           /\ log[1].ev = "call" /\ log[1].step.kind = "StepAdapter"
           /\ \E r \in 2..4 :
                 /\ log[r].ev = "reset"
                 /\ \A i \in (2..5) \ {r} : log[i].ev # "reset"
           /\ log[5].ev = "ret" /\ log[5].step.kind = "StepAdapter"
           /\ IsOk(log[5].result)
           /\ log[6].ev = "call" /\ log[6].step.kind = "StepAdapter"
           /\ log[7].ev = "call" /\ log[7].step.kind = "StateStep"
           /\ log[7].input.state # State_default

----------------------------------------------------------------------------
(* Properties of FairLoops *)

\* the frame at depth d of a stack
FrameAt(stack, d) == stack[Len(stack) - d + 1]

\* the number of calls of its sub-step that the invocation in progress at
\* depth d of future f has made
MadeBy(f, d) ==
    LET log == Log(f)
        own == Greatest({i \in 1..Len(log) : log[i].ev = "call" /\ log[i].depth = d})
    IN  Cardinality({i \in (own + 1)..Len(log) :
                        log[i].ev = "call" /\ log[i].depth = d + 1})

\* a loop in progress has made a call for every iteration, and what it has
\* left to do has got shorter by at least one item with every call
LoopsBounded ==
    \A f \in DOMAIN fibers : \A d \in 1..Len(fibers[f].stack) :
        LET fr == FrameAt(fibers[f].stack, d) IN
           /\ (fr.step.kind = "Batch" /\ fr.pc = "chunk") =>
                 /\ fr.step.batch_size >= 1
                 /\ MadeBy(f, d) >= 1
                 /\ MadeBy(f, d) + Len(fr.loc.remaining) <= Len(fr.input)
           /\ (fr.step.kind = "SingleItemAdapter" /\ fr.pc = "item") =>
                 MadeBy(f, d) + Len(fr.loc.rest) = Len(fr.input)
           /\ (fr.step.kind = "ParallelMap" /\ fr.pc = "join_all") =>
                 {g \in DOMAIN fibers : Len(g) = Len(f) + 1 /\ IsPrefix(f, g)} =
                    Children(f, Len(fr.input))

\* C34: when every user-written step returns, every call of a BatchStep, a
\* SingleItemAdapter or a ParallelMapStep returns: a BatchStep takes at least
\* one item off the remaining input for every call it makes and so makes at
\* most n of them, a SingleItemAdapter makes one call per item, and a
\* ParallelMapStep returns when its n futures have completed
CombinatorsTerminate ==
    /\ []LoopsBounded
    /\ \A t \in Callers :
          (fibers[<<t>>].stack # <<>>) ~> (fibers[<<t>>].stack = <<>>)

\* a BatchStep of chunk size 1 has returned after as many calls as there
\* are items, MaxBatch of them
CombinatorsTerminateWitness ==
    \E t \in Callers :
        /\ Done(t)
        /\ LastCall(t).step.kind = "Batch"
        /\ LastCall(t).step.batch_size = 1
        /\ Len(LastCall(t).input) = MaxBatch
        /\ IsOk(LastRet(t).result)
        /\ Cardinality({i \in 1..Len(Log(<<t>>)) :
                           Log(<<t>>)[i].ev = "call" /\ Log(<<t>>)[i].depth = 2}) = MaxBatch

====
